---- MODULE Spec2Model ----
(***************************************************************************)
(* A model of the catalog retrieval pipeline of graz-library-bulk-ops:     *)
(* the query validator (utils/validators.py), the record model             *)
(* (models/book.py), the file cache, the rate limiter and the search       *)
(* orchestrator (catalog/scraper.py) and the browser-driven search         *)
(* (catalog/browser_search.py).                                            *)
(*                                                                         *)
(* Python values are records tagged by "kind"; a Python str is a sequence  *)
(* of one-character strings, so that strip(), lower(), replace() and len() *)
(* are computed rather than assumed.                                       *)
(***************************************************************************)
EXTENDS Integers, Sequences, FiniteSets, TLC

VARIABLES
    now,                \* wall clock, time.time(), in seconds
    cache,              \* Config.CACHE_DIR: cache key -> file state
    last_request_time,  \* WebOPACScraper.last_request_time
    call,               \* the last call made and what the environment did in it
    ret,                \* what the last call returned (or the exception it raised)
    evts,               \* the pipeline steps the last call executed, in order
    lookup,             \* what the cache held for the last call when it looked
    calls,              \* number of calls made so far
    ticks,              \* number of clock advances so far
    obj,                \* a SearchResult held by a caller of the record model
    vq,                 \* the value handed to a validator
    vres,               \* what the validator returned for vq
    b_last_request_time,\* BrowserSearcher.last_request_time
    b_page,             \* BrowserSearcher.browser.session.page is set
    sent,               \* times at which the instance issued its outbound requests
    pc,                 \* where the search in flight stands: "idle" or "sending"
    retries,            \* Retry.total left to the request in flight
    attempts            \* what the attempts of the request in flight were answered

vars == <<now, cache, last_request_time, call, ret, evts, lookup, calls, ticks,
          obj, vq, vres, b_last_request_time, b_page, sent, pc, retries, attempts>>

-----------------------------------------------------------------------------
(* Bounds of the model *)

MaxCalls == 2
MaxTicks == 2
MaxPad == 2
StartTime == 1700000000

(* Program constants *)

RATE_LIMIT_DELAY == 2
CACHE_TTL == 3600
REQUEST_RETRY_ATTEMPTS == 3
MIN_QUERY_LEN == 2
MAX_QUERY_LEN == 500

-----------------------------------------------------------------------------
(* Python values *)

PyNone == [kind |-> "none"]
PyStr(s) == [kind |-> "str", s |-> s]
PyInt(n) == [kind |-> "int", n |-> n]
PyExc(t) == [kind |-> "exception", type |-> t]

\* a message whose text is not inspected character by character
Msg(text) == PyStr(<<text>>)

IsStr(v) == v.kind = "str"
IsExc(v) == v.kind = "exception"

\* Python truth value: None, "", 0 and an object whose __len__ is 0 are false.
Truthy(v) ==
    CASE v.kind = "none" -> FALSE
      [] v.kind = "str" -> Len(v.s) > 0
      [] v.kind = "int" -> v.n # 0
      [] v.kind = "SearchResult" -> Len(v.books) > 0
      [] OTHER -> TRUE

Whitespace == {" ", "\t", "\n"}

SetMin(S) == CHOOSE x \in S : \A y \in S : x <= y
SetMax(S) == CHOOSE x \in S : \A y \in S : x >= y

\* str.strip()
Strip(s) ==
    LET keep == {i \in 1..Len(s) : s[i] \notin Whitespace}
    IN  IF keep = {} THEN <<>> ELSE SubSeq(s, SetMin(keep), SetMax(keep))

UpperCase ==
    <<"A", "B", "C", "D", "E", "F", "G", "H", "I", "J", "K", "L", "M",
      "N", "O", "P", "Q", "R", "S", "T", "U", "V", "W", "X", "Y", "Z",
      "Ä", "Ö", "Ü">>
LowerCase ==
    <<"a", "b", "c", "d", "e", "f", "g", "h", "i", "j", "k", "l", "m",
      "n", "o", "p", "q", "r", "s", "t", "u", "v", "w", "x", "y", "z",
      "ä", "ö", "ü">>

UpperSet == {UpperCase[i] : i \in 1..Len(UpperCase)}
LowerOf == [c \in UpperSet |-> LowerCase[CHOOSE i \in 1..Len(UpperCase) : UpperCase[i] = c]]

LowerChar(c) == IF c \in UpperSet THEN LowerOf[c] ELSE c

\* str.lower()
Lower(s) == [i \in 1..Len(s) |-> LowerChar(s[i])]

\* str.replace(old, new) for one-character old and new
Replace(s, old, new) == [i \in 1..Len(s) |-> IF s[i] = old THEN new ELSE s[i]]

Repeat(c, n) == [i \in 1..n |-> c]

Digits == <<"0", "1", "2", "3", "4", "5", "6", "7", "8", "9">>

\* str.isdigit() of one character; a superscript two is a digit to isdigit()
IsDigit(c) == c = "²" \/ \E i \in 1..Len(Digits) : Digits[i] = c

DigitSet == {Digits[i] : i \in 1..10}
DigitValue == [c \in DigitSet |-> (CHOOSE i \in 1..10 : Digits[i] = c) - 1]

\* int(c) of one character: its value, or -1 where int() raises ValueError
IntOf(c) == IF c \in DigitSet THEN DigitValue[c] ELSE -1

\* str(n) for 0 <= n <= 9
StrOf(n) == Digits[n + 1]

\* str.replace(old, "") for a one-character old
Without(s, old) == SelectSeq(s, LAMBDA c : c # old)

RECURSIVE SumSeq(_)
SumSeq(s) == IF s = <<>> THEN 0 ELSE Head(s) + SumSeq(Tail(s))

\* a character matched by \d: one that int() converts
IsDecimal(c) == IntOf(c) >= 0

\* a character matched by \w
IsWordChar(c) ==
    \/ IsDecimal(c)
    \/ c = "_"
    \/ \E i \in 1..Len(UpperCase) : c \in {UpperCase[i], LowerCase[i]}

-----------------------------------------------------------------------------
(* utils/validators.py *)

ValidateNoStrip(query) ==
    IF ~Truthy(query) \/ ~IsStr(query)
    THEN [ok |-> FALSE, error |-> Msg("Search query must be a non-empty string")]
    ELSE IF Len(query.s) < MIN_QUERY_LEN
         THEN [ok |-> FALSE, error |-> Msg("Search query must be at least 2 characters long")]
         ELSE IF Len(query.s) > MAX_QUERY_LEN
              THEN [ok |-> FALSE, error |-> Msg("Search query must not exceed 500 characters")]
              ELSE [ok |-> TRUE, error |-> PyNone]

validate_search_query(query) ==
    IF ~Truthy(query) \/ ~IsStr(query)
    THEN [ok |-> FALSE, error |-> Msg("Search query must be a non-empty string")]
    ELSE LET q == Strip(query.s)
         IN  IF Len(q) < MIN_QUERY_LEN
             THEN [ok |-> FALSE, error |-> Msg("Search query must be at least 2 characters long")]
             ELSE IF Len(q) > MAX_QUERY_LEN
                  THEN [ok |-> FALSE, error |-> Msg("Search query must not exceed 500 characters")]
                  ELSE [ok |-> TRUE, error |-> PyNone]

-----------------------------------------------------------------------------
(* models/book.py *)

BookFields ==
    {"title", "author", "isbn", "publisher", "publication_year", "medium_type",
     "catalog_id", "availability", "location", "call_number", "description",
     "cover_url", "url"}

Field(kw, name, default) == IF name \in DOMAIN kw THEN kw[name] ELSE default

BookUnchecked(kw) ==
    [kind |-> "Book",
     title |-> Field(kw, "title", PyNone),
     author |-> Field(kw, "author", PyNone),
     isbn |-> Field(kw, "isbn", PyNone),
     publisher |-> Field(kw, "publisher", PyNone),
     publication_year |-> Field(kw, "publication_year", PyNone),
     medium_type |-> Field(kw, "medium_type", Msg("Book")),
     catalog_id |-> Field(kw, "catalog_id", PyNone),
     availability |-> Field(kw, "availability", Msg("Unknown")),
     location |-> Field(kw, "location", PyNone),
     call_number |-> Field(kw, "call_number", PyNone),
     description |-> Field(kw, "description", PyNone),
     cover_url |-> Field(kw, "cover_url", PyNone),
     url |-> Field(kw, "url", PyNone)]

\* Book(**kw): the dataclass constructor followed by __post_init__
Book(kw) ==
    IF "title" \notin DOMAIN kw \/ ~(DOMAIN kw \subseteq BookFields)
    THEN PyExc("TypeError")
    ELSE IF ~Truthy(kw.title)
         THEN PyExc("ValueError")
         ELSE [kind |-> "Book",
               title |-> kw.title,
               author |-> Field(kw, "author", PyNone),
               isbn |-> Field(kw, "isbn", PyNone),
               publisher |-> Field(kw, "publisher", PyNone),
               publication_year |-> Field(kw, "publication_year", PyNone),
               medium_type |-> Field(kw, "medium_type", Msg("Book")),
               catalog_id |-> Field(kw, "catalog_id", PyNone),
               availability |-> Field(kw, "availability", Msg("Unknown")),
               location |-> Field(kw, "location", PyNone),
               call_number |-> Field(kw, "call_number", PyNone),
               description |-> Field(kw, "description", PyNone),
               cover_url |-> Field(kw, "cover_url", PyNone),
               url |-> Field(kw, "url", PyNone)]

BookToDictNoUrl(b) ==
    [title |-> b.title,
     author |-> b.author,
     isbn |-> b.isbn,
     publisher |-> b.publisher,
     publication_year |-> b.publication_year,
     medium_type |-> b.medium_type,
     catalog_id |-> b.catalog_id,
     availability |-> b.availability,
     location |-> b.location,
     call_number |-> b.call_number,
     description |-> b.description,
     cover_url |-> b.cover_url]

\* Book.to_dict
BookToDict(b) ==
    [title |-> b.title,
     author |-> b.author,
     isbn |-> b.isbn,
     publisher |-> b.publisher,
     publication_year |-> b.publication_year,
     medium_type |-> b.medium_type,
     catalog_id |-> b.catalog_id,
     availability |-> b.availability,
     location |-> b.location,
     call_number |-> b.call_number,
     description |-> b.description,
     cover_url |-> b.cover_url,
     url |-> b.url]

\* SearchResult(query=, books=, total_results=, search_type=) created at time t
SearchResult(query, books, total_results, search_type, t) ==
    [kind |-> "SearchResult",
     query |-> query,
     books |-> books,
     total_results |-> total_results,
     search_type |-> search_type,
     timestamp |-> t,
     search_time_ms |-> PyNone]

\* SearchResult.add_book
add_book(r, b) ==
    LET appended == Append(r.books, b)
    IN  [r EXCEPT !.books = appended, !.total_results = Len(appended)]

-----------------------------------------------------------------------------
(* json.dump / json.load of the values the cache stores *)

JsonEncode(v) ==
    CASE v.kind = "none" -> [j |-> "null"]
      [] v.kind = "str" -> [j |-> "string", s |-> v.s]
      [] v.kind = "int" -> [j |-> "number", n |-> v.n]

JsonDecode(x) ==
    CASE x.j = "null" -> PyNone
      [] x.j = "string" -> PyStr(x.s)
      [] x.j = "number" -> PyInt(x.n)

JsonEncodeDict(d) == [k \in DOMAIN d |-> JsonEncode(d[k])]
JsonDecodeDict(x) == [k \in DOMAIN x |-> JsonDecode(x[k])]

-----------------------------------------------------------------------------
(* The cache directory: utils/config.py and catalog/scraper.py *)

NoFile == [kind |-> "absent"]
File(mtime, text) == [kind |-> "file", mtime |-> mtime, text |-> text]

\* what a file holds after open(path, "w") and a json.dump that did not finish
Truncated == [fmt |-> "truncated"]

\* Config.get_cache_path
get_cache_path(key) == key \o <<".cache">>

\* WebOPACScraper._get_cache_key
get_cache_key(query, search_type) ==
    search_type.s \o <<"_">> \o Replace(Lower(query.s), " ", "_")

ExpiredNever(cache_age) == FALSE

\* the expiry test of _load_from_cache
IsExpired(cache_age) == cache_age > CACHE_TTL

ReadPartial(f, t) ==
    IF f.text.fmt # "json"
    THEN SearchResult(PyStr(<<>>), <<>>, 0, PyStr(<<>>), t)
    ELSE LET data == f.text.doc
             books == [i \in 1..Len(data.books) |->
                          Book(JsonDecodeDict(data.books[i]))]
             bad == {i \in 1..Len(books) : IsExc(books[i])}
         IN  IF bad # {}
             THEN books[SetMin(bad)]
             ELSE SearchResult(JsonDecode(data.query), books,
                               JsonDecode(data.total_results).n,
                               JsonDecode(data.search_type), t)

\* json.load of the open file and the rebuilding of the result, at time t
ReadEntry(f, t) ==
    IF f.text.fmt # "json"
    THEN PyExc("JSONDecodeError")
    ELSE LET data == f.text.doc
             books == [i \in 1..Len(data.books) |->
                          Book(JsonDecodeDict(data.books[i]))]
             bad == {i \in 1..Len(books) : IsExc(books[i])}
         IN  IF bad # {}
             THEN books[SetMin(bad)]
             ELSE SearchResult(JsonDecode(data.query), books,
                               JsonDecode(data.total_results).n,
                               JsonDecode(data.search_type), t)

\* the body of the try block of _load_from_cache, at time t
LoadFromCacheTry(c, t, cache_key) ==
    LET f == c[get_cache_path(cache_key)]
    IN  IF f.kind = "absent"
        THEN PyNone
        ELSE IF IsExpired(t - f.mtime)
             THEN PyNone
             ELSE ReadEntry(f, t)

LoadFromCacheUnguarded(c, t, cache_key) == LoadFromCacheTry(c, t, cache_key)

\* WebOPACScraper._load_from_cache: any exception is logged and becomes None
LoadFromCache(c, t, cache_key) ==
    LET r == LoadFromCacheTry(c, t, cache_key)
    IN  IF IsExc(r) THEN PyNone ELSE r

\* the document _save_to_cache hands to json.dump
CacheDocument(result) ==
    [query |-> JsonEncode(result.query),
     search_type |-> JsonEncode(result.search_type),
     total_results |-> JsonEncode(PyInt(result.total_results)),
     books |-> [i \in 1..Len(result.books) |->
                   JsonEncodeDict(BookToDict(result.books[i]))]]

SaveOutcomes == {"ok", "open_failed", "write_failed"}

\* the file system after the body of the try block of _save_to_cache, at time t
SaveFiles(c, t, cache_key, result, outcome) ==
    LET path == get_cache_path(cache_key)
    IN  CASE outcome = "ok" ->
               [c EXCEPT ![path] = File(t, [fmt |-> "json", doc |-> CacheDocument(result)])]
          [] outcome = "open_failed" -> c
          [] outcome = "write_failed" -> [c EXCEPT ![path] = File(t, Truncated)]

SaveToCacheUnguarded(c, t, cache_key, result, outcome) ==
    [cache |-> SaveFiles(c, t, cache_key, result, outcome),
     exc |-> IF outcome = "ok" THEN PyNone ELSE PyExc("OSError")]

\* WebOPACScraper._save_to_cache: any exception is logged and swallowed
SaveToCache(c, t, cache_key, result, outcome) ==
    [cache |-> SaveFiles(c, t, cache_key, result, outcome), exc |-> PyNone]

RateLimitWithoutStamp(t, last) ==
    LET elapsed == t - last
        sleep_time == IF elapsed < RATE_LIMIT_DELAY THEN RATE_LIMIT_DELAY - elapsed ELSE 0
    IN  [now |-> t + sleep_time, last |-> last, slept |-> sleep_time]

\* WebOPACScraper._respect_rate_limit (and BrowserSearcher's), called at time t
RespectRateLimit(t, last) ==
    LET elapsed == t - last
        sleep_time == IF elapsed < RATE_LIMIT_DELAY THEN RATE_LIMIT_DELAY - elapsed ELSE 0
    IN  [now |-> t + sleep_time, last |-> t + sleep_time, slept |-> sleep_time]

-----------------------------------------------------------------------------
(* catalog/parser.py.  A parsed document is the sequence of its elements in   *)
(* document order; a result container is a div holding a sequence of          *)
(* elements, each with a tag, a class, a text and an href.                    *)

Tag(tag, class, text, href) ==
    [kind |-> "Tag", tag |-> tag, class |-> class, text |-> text, href |-> href]

Container(class, elems) ==
    [kind |-> "Tag", tag |-> "div", class |-> class, elems |-> elems]

\* a container with a title heading and an author line, either of them optional
Div(class, title, author) ==
    Container(class,
              (IF title = PyNone THEN <<>> ELSE <<Tag("h3", "title", title.s, PyNone)>>)
              \o (IF author = PyNone THEN <<>> ELSE <<Tag("span", "author", author.s, PyNone)>>))

\* response.text and the browser's page source: the markup of a page
Html(page) == [kind |-> "html", page |-> page]

\* BeautifulSoup(html, "html.parser"): anything but a str raises
BeautifulSoup(html) ==
    IF html.kind = "html" THEN [kind |-> "BeautifulSoup", nodes |-> html.page]
    ELSE PyExc("TypeError")

RECURSIVE Concat(_)
Concat(ss) == IF ss = <<>> THEN <<>> ELSE Head(ss) \o Concat(Tail(ss))

\* Tag.get_text() of a container: the texts of its elements, joined
get_text(item) == Concat([i \in 1..Len(item.elems) |-> item.elems[i].text])

\* Tag.get_text(strip=True) of an element holding one string
get_text_strip(elem) == PyStr(Strip(elem.text))

\* Tag.find(tags, class_=classes): the first matching element, or None
find(item, tags, classes) ==
    LET hits == {i \in 1..Len(item.elems) :
                    item.elems[i].tag \in tags /\ item.elems[i].class \in classes}
    IN  IF hits = {} THEN PyNone ELSE item.elems[SetMin(hits)]

HasDigit(s) == \E i \in 1..Len(s) : IsDecimal(s[i])

\* Tag.find("a", href=...): the first link with an href, and with a digit in it
\* when href is re.compile(r"\d+") rather than True
find_link(item, href) ==
    LET hits == {i \in 1..Len(item.elems) :
                    /\ item.elems[i].tag = "a"
                    /\ item.elems[i].href # PyNone
                    /\ (href = "True" \/ HasDigit(item.elems[i].href.s))}
    IN  IF hits = {} THEN PyNone ELSE item.elems[SetMin(hits)]

\* sub in s
Contains(s, sub) ==
    \E i \in 1..(Len(s) - Len(sub) + 1) : SubSeq(s, i, i + Len(sub) - 1) = sub

\* str.startswith
StartsWith(s, pre) == Len(pre) <= Len(s) /\ SubSeq(s, 1, Len(pre)) = pre

\* the end of the longest run of characters of the class that starts at j
\* (j - 1 when text[j] is not of the class)
RunEnd(text, j, class) ==
    LET stops == {k \in j..Len(text) : text[k] \notin class}
    IN  IF stops = {} THEN Len(text) ELSE SetMin(stops) - 1

\* the end of the line that holds position j: the run of "." of a regex
LineEnd(text, j) ==
    LET stops == {k \in j..Len(text) : text[k] = "\n"}
    IN  IF stops = {} THEN Len(text) ELSE SetMin(stops) - 1

\* the character classes [0-9\-X] under re.IGNORECASE and [:\s]
IsbnChars == DigitSet \cup {"-", "X", "x"}
LabelGap == {":"} \cup Whitespace

\* where re.search(r"ISBN[:\s]*([0-9\-X]+)", text, re.IGNORECASE) matches:
\* the positions of the group, or <<>> without a match
IsbnMatch(text) ==
    LET starts == {i \in 1..(Len(text) - 3) :
                      /\ Lower(SubSeq(text, i, i + 3)) = <<"i", "s", "b", "n">>
                      /\ LET j == RunEnd(text, i + 4, LabelGap) + 1
                         IN  j <= Len(text) /\ text[j] \in IsbnChars}
    IN  IF starts = {} THEN <<>>
        ELSE LET j == RunEnd(text, SetMin(starts) + 4, LabelGap) + 1
             IN  <<j, RunEnd(text, j, IsbnChars)>>

ExtractIsbnAnyLength(item) ==
    LET text == get_text(item)
        m == IsbnMatch(text)
    IN  IF m = <<>> THEN PyNone
        ELSE PyStr(Without(Without(SubSeq(text, m[1], m[2]), "-"), " "))

\* CatalogParser._extract_isbn
extract_isbn(item) ==
    LET text == get_text(item)
        m == IsbnMatch(text)
    IN  IF m = <<>> THEN PyNone
        ELSE LET isbn == Without(Without(SubSeq(text, m[1], m[2]), "-"), " ")
             IN  IF Len(isbn) \in {10, 13} THEN PyStr(isbn) ELSE PyNone

ExtractAvailabilityIndicatorsFirst(item) ==
    LET avail_elem == find(item, {"span", "p"}, {"availability", "status"})
    IN  IF find(item, {"span"}, {"available", "green"}) # PyNone THEN Msg("Available")
        ELSE IF find(item, {"span"}, {"unavailable", "red"}) # PyNone THEN Msg("Checked Out")
        ELSE IF avail_elem # PyNone
        THEN LET status_text == Lower(get_text_strip(avail_elem).s)
             IN  IF Contains(status_text, <<"a", "v", "a", "i", "l", "a", "b", "l", "e">>) \/ Contains(status_text, <<"v", "e", "r", "f", "ü", "g", "b", "a", "r">>)
                 THEN Msg("Available")
                 ELSE IF Contains(status_text, <<"c", "h", "e", "c", "k", "e", "d", " ", "o", "u", "t">>)
                         \/ Contains(status_text, <<"a", "u", "s", "g", "e", "l", "i", "e", "h", "e", "n">>)
                 THEN Msg("Checked Out")
                 ELSE IF Contains(status_text, <<"o", "r", "d", "e", "r">>) \/ Contains(status_text, <<"b", "e", "s", "t", "e", "l", "l", "t">>)
                 THEN Msg("On Order")
                 ELSE IF Contains(status_text, <<"r", "e", "s", "e", "r", "v", "e", "d">>)
                         \/ Contains(status_text, <<"r", "e", "s", "e", "r", "v", "i", "e", "r", "t">>)
                 THEN Msg("Reserved")
                 ELSE PyStr(status_text)
        ELSE Msg("Unknown")

\* CatalogParser._extract_availability
extract_availability(item) ==
    LET avail_elem == find(item, {"span", "p"}, {"availability", "status"})
    IN  IF avail_elem # PyNone
        THEN LET status_text == Lower(get_text_strip(avail_elem).s)
             IN  IF Contains(status_text, <<"a", "v", "a", "i", "l", "a", "b", "l", "e">>) \/ Contains(status_text, <<"v", "e", "r", "f", "ü", "g", "b", "a", "r">>)
                 THEN Msg("Available")
                 ELSE IF Contains(status_text, <<"c", "h", "e", "c", "k", "e", "d", " ", "o", "u", "t">>)
                         \/ Contains(status_text, <<"a", "u", "s", "g", "e", "l", "i", "e", "h", "e", "n">>)
                 THEN Msg("Checked Out")
                 ELSE IF Contains(status_text, <<"o", "r", "d", "e", "r">>) \/ Contains(status_text, <<"b", "e", "s", "t", "e", "l", "l", "t">>)
                 THEN Msg("On Order")
                 ELSE IF Contains(status_text, <<"r", "e", "s", "e", "r", "v", "e", "d">>)
                         \/ Contains(status_text, <<"r", "e", "s", "e", "r", "v", "i", "e", "r", "t">>)
                 THEN Msg("Reserved")
                 ELSE PyStr(status_text)
        ELSE IF find(item, {"span"}, {"available", "green"}) # PyNone THEN Msg("Available")
        ELSE IF find(item, {"span"}, {"unavailable", "red"}) # PyNone THEN Msg("Checked Out")
        ELSE Msg("Unknown")

\* CatalogParser._extract_location
extract_location(item) ==
    LET location_elem == find(item, {"span", "p"}, {"location", "branch", "library"})
    IN  IF location_elem # PyNone THEN get_text_strip(location_elem) ELSE PyNone

\* int() of a string of decimal digits
RECURSIVE IntOfDigits(_)
IntOfDigits(s) ==
    IF s = <<>> THEN 0 ELSE 10 * IntOfDigits(SubSeq(s, 1, Len(s) - 1)) + IntOf(s[Len(s)])

\* CatalogParser._extract_publication_year: re.search(r"\b(19|20)\d{2}\b", text)
extract_publication_year(item) ==
    LET text == get_text(item)
        starts == {i \in 1..(Len(text) - 3) :
                      /\ SubSeq(text, i, i + 1) \in {<<"1", "9">>, <<"2", "0">>}
                      /\ IsDecimal(text[i + 2]) /\ IsDecimal(text[i + 3])
                      /\ (i = 1 \/ ~IsWordChar(text[i - 1]))
                      /\ (i + 3 = Len(text) \/ ~IsWordChar(text[i + 4]))}
    IN  IF starts = {} THEN PyNone
        ELSE PyInt(IntOfDigits(SubSeq(text, SetMin(starts), SetMin(starts) + 3)))

\* the first run of digits of an href that has one: re.search(r"(\d+)", href)
FirstDigits(s) ==
    LET i == SetMin({k \in 1..Len(s) : IsDecimal(s[k])})
    IN  SubSeq(s, i, RunEnd(s, i, DigitSet))

BASE_URL == Msg("https://stadtbibliothek.graz.at").s

\* the title of a container: lines 69 and 70 of _parse_book_item
parse_title(item) ==
    LET title_elem == find(item, {"h2", "h3", "a"}, {"title", "hit-title"})
    IN  IF title_elem # PyNone THEN get_text_strip(title_elem) ELSE PyNone

\* the fields of the Book that _parse_book_item builds for a container
BookFieldsOf(item, title) ==
    LET author_elem == find(item, {"span", "p"}, {"author", "creator"})
        link_elem == find_link(item, "\\d+")
        medium_elem == find(item, {"span", "p"}, {"medium-type", "type"})
        url_elem == find_link(item, "True")
    IN  [title |-> title,
         author |-> IF author_elem # PyNone THEN get_text_strip(author_elem) ELSE PyNone,
         isbn |-> extract_isbn(item),
         catalog_id |-> IF link_elem # PyNone /\ Truthy(link_elem.href)
                        THEN PyStr(FirstDigits(link_elem.href.s)) ELSE PyNone,
         availability |-> extract_availability(item),
         location |-> extract_location(item),
         medium_type |-> IF medium_elem # PyNone THEN get_text_strip(medium_elem)
                         ELSE Msg("Book"),
         publication_year |-> extract_publication_year(item),
         url |-> IF url_elem # PyNone /\ Truthy(url_elem.href)
                 THEN IF StartsWith(url_elem.href.s, <<"h", "t", "t", "p">>) THEN url_elem.href
                      ELSE PyStr(BASE_URL \o url_elem.href.s)
                 ELSE PyNone]

ParseBookItemNeedsAuthor(item) ==
    LET title == parse_title(item)
    IN  IF ~Truthy(title) \/ ~Truthy(BookFieldsOf(item, title).author)
        THEN PyNone
        ELSE Book(BookFieldsOf(item, title))

\* CatalogParser._parse_book_item
parse_book_item(item) ==
    LET title == parse_title(item)
    IN  IF ~Truthy(title)
        THEN PyNone
        ELSE Book(BookFieldsOf(item, title))

RECURSIVE ParseItems(_)
\* the loop of parse_search_results: a None item and a failing item are skipped
ParseItems(items) ==
    IF items = <<>>
    THEN <<>>
    ELSE LET book == parse_book_item(Head(items))
         IN  IF IsExc(book) \/ book = PyNone
             THEN ParseItems(Tail(items))
             ELSE <<book>> \o ParseItems(Tail(items))

IsDiv(d) == d.tag = "div"
IsPrimary(d) == IsDiv(d) /\ d.class \in {"result-item", "hit"}
IsSecondary(d) == IsDiv(d) /\ d.class = "result"

ParseSearchResultsMixed(html) ==
    LET soup == BeautifulSoup(html)
    IN  IF IsExc(soup) THEN <<>>
        ELSE ParseItems(SelectSeq(soup.nodes, LAMBDA d : IsPrimary(d) \/ IsSecondary(d)))

\* CatalogParser.parse_search_results
parse_search_results(html) ==
    LET soup == BeautifulSoup(html)
    IN  IF IsExc(soup)
        THEN <<>>
        ELSE LET primary == SelectSeq(soup.nodes, IsPrimary)
                 result_items == IF primary # <<>> THEN primary
                                 ELSE SelectSeq(soup.nodes, IsSecondary)
             IN  ParseItems(result_items)

-----------------------------------------------------------------------------
(* WebOPACScraper.search, in the stages of its code.  st is the state the     *)
(* call starts in, a the call: its arguments and what the network and the     *)
(* file system do during it.                                                  *)

Out(st, r, steps) ==
    [now |-> st.now, cache |-> st.cache, last |-> st.last, ret |-> r, evts |-> steps]

\* what a lookup of cache_key at time t finds (an observation, not a step of the code)
LookupKind(c, t, cache_key) ==
    LET f == c[get_cache_path(cache_key)]
        r == LoadFromCacheTry(c, t, cache_key)
    IN  IF f.kind = "absent" THEN "absent"
        ELSE IF r = PyNone THEN "expired"
        ELSE IF IsExc(r) THEN "corrupt"
        ELSE IF Truthy(r) THEN "hit" ELSE "empty hit"

RequestFailedCachingEmpty(st, rl, a, cache_key, steps) ==
    [now |-> rl.now,
     cache |-> SaveFiles(st.cache, rl.now, cache_key,
                         SearchResult(a.query, <<>>, 0, a.search_type, rl.now), "ok"),
     last |-> rl.last, ret |-> PyNone,
     evts |-> steps \o <<"rate_limit", "get">>]

\* session.get or raise_for_status raised: except RequestException returns None
RequestFailed(st, rl, a, cache_key, steps) ==
    [now |-> rl.now, cache |-> st.cache, last |-> rl.last, ret |-> PyNone,
     evts |-> steps \o <<"rate_limit", "get">>]

\* the rest of the try block once the response is in: parse, build the result,
\* stamp the elapsed time, save, return
SearchSucceeded(st, rl, a, cache_key, steps, books) ==
    LET created == SearchResult(a.query, books, Len(books), a.search_type, rl.now)
        result == [created EXCEPT !.search_time_ms = PyInt((rl.now - st.now) * 1000)]
        sv == SaveToCache(st.cache, rl.now, cache_key, result, a.save)
    IN  [now |-> rl.now, cache |-> sv.cache, last |-> rl.last,
         \* an exception of the save would end in except Exception
         ret |-> IF IsExc(sv.exc) THEN PyNone ELSE result,
         evts |-> steps \o <<"rate_limit", "get", "parse", "cache_write">>]

\* the try block of search after the rate limiter has let the call go on
SearchRequest(st, rl, a, cache_key, steps) ==
    IF ~a.resp.ok
    THEN RequestFailed(st, rl, a, cache_key, steps)
    ELSE SearchSucceeded(st, rl, a, cache_key, steps, parse_search_results(Html(a.resp.page)))

\* the try block of search: rate limit, GET, parse, cache write
SearchFetch(st, a, cache_key, steps) ==
    SearchRequest(st, RespectRateLimit(st.now, st.last), a, cache_key, steps)

\* what search does with the answer of the cache
SearchCached(st, a, cache_key, cached_result) ==
    IF IsExc(cached_result)
    THEN \* raised outside the try block of search
         Out(st, cached_result, <<"validate", "cache_lookup">>)
    ELSE IF Truthy(cached_result)
         THEN Out(st, cached_result, <<"validate", "cache_lookup">>)
         ELSE SearchFetch(st, a, cache_key, <<"validate", "cache_lookup">>)

\* search once the query is known to be valid: the cache check, then the request
SearchKeyed(st, a, cache_key) ==
    IF a.use_cache
    THEN SearchCached(st, a, cache_key, LoadFromCache(st.cache, st.now, cache_key))
    ELSE SearchFetch(st, a, cache_key, <<"validate">>)

SearchLookup(st, a) == SearchKeyed(st, a, get_cache_key(a.query, a.search_type))

SearchRunStampFirst(st, a) ==
    IF ~validate_search_query(a.query).ok
    THEN [now |-> st.now, cache |-> st.cache, last |-> st.now, ret |-> PyNone,
          evts |-> <<"validate">>]
    ELSE SearchLookup(st, a)

\* WebOPACScraper.search
SearchRun(st, a) ==
    IF ~validate_search_query(a.query).ok
    THEN Out(st, PyNone, <<"validate">>)
    ELSE SearchLookup(st, a)

-----------------------------------------------------------------------------
(* The inputs the model draws from *)

Keyword == PyStr(<<"k", "e", "y", "w", "o", "r", "d">>)
ByTitle == PyStr(<<"t", "i", "t", "l", "e">>)
SearchTypes == {Keyword, ByTitle}

ValidQueries == {PyStr(<<"a", " ", "b">>), PyStr(<<"A", "_", "b">>)}
InvalidQueries == {PyNone, PyStr(<<" ", "a">>)}
Queries == ValidQueries \cup InvalidQueries

CacheKeys == {get_cache_key(q, t) : q \in ValidQueries, t \in SearchTypes}
CachePaths == {get_cache_path(k) : k \in CacheKeys}

BookA ==
    Book([title |-> PyStr(<<"D">>), author |-> PyStr(<<"H">>),
          isbn |-> Msg("0451524934"), publisher |-> Msg("Ace"),
          publication_year |-> PyInt(1965), medium_type |-> Msg("eBook"),
          catalog_id |-> Msg("12345"), availability |-> Msg("Available"),
          location |-> Msg("Zanklhof"), call_number |-> Msg("JK.T PET"),
          description |-> Msg("A novel"), cover_url |-> Msg("/cover.jpg"),
          url |-> Msg("https://stadtbibliothek.graz.at/1")])
BookB == Book([title |-> PyStr(<<"E">>)])
BookLists == {<<>>, <<BookA>>, <<BookA, BookB>>, <<BookB, BookA>>}

DivA == Div("hit", PyStr(<<"D">>), PyStr(<<"H">>))
DivB == Div("hit", PyStr(<<"E">>), PyNone)
DivUntitled == Div("hit", PyNone, PyStr(<<"H">>))
Pages == {<<DivUntitled>>, <<DivA, DivB>>}

\* what the network answers: a page, or a request exception
NotAsked == [ok |-> FALSE, error |-> "not asked"]
Failures == {[ok |-> FALSE, error |-> "RequestException"]}
Responses == Failures \cup {[ok |-> TRUE, page |-> p] : p \in Pages}

Reached(steps, step) == \E i \in 1..Len(steps) : steps[i] = step

-----------------------------------------------------------------------------
(* The scraper: one instance, its cache directory and the clock *)

Idle ==
    /\ obj = PyNone
    /\ vq = PyNone
    /\ vres = PyNone
    /\ b_last_request_time = 0
    /\ b_page = FALSE
    /\ sent = <<>>
    /\ pc = "idle"
    /\ retries = REQUEST_RETRY_ATTEMPTS
    /\ attempts = <<>>

Init ==
    /\ now = StartTime
    /\ cache = [p \in CachePaths |-> NoFile]
    /\ last_request_time = 0
    /\ call = [op |-> "none"]
    /\ ret = PyNone
    /\ evts = <<>>
    /\ lookup = "skipped"
    /\ calls = 0
    /\ ticks = 0
    /\ Idle

\* whether search(query, search_type, use_cache), called now, gets as far as
\* the network
AsksNetwork(query, search_type, use_cache) ==
    LET probe == SearchRun([now |-> now, cache |-> cache, last |-> last_request_time],
                           [op |-> "search", at |-> now, query |-> query, search_type |-> search_type,
                            use_cache |-> use_cache,
                            resp |-> [ok |-> FALSE, error |-> "RequestException"],
                            save |-> "ok"])
    IN  Reached(probe.evts, "get")

\* the environment is asked only for what the call consumes
ResponsesTo(query, search_type, use_cache) ==
    IF AsksNetwork(query, search_type, use_cache) THEN Responses ELSE {NotAsked}
\* a save of search that fails leaves a file it could not finish writing
SearchSaveOutcomes == {"ok", "write_failed"}
SaveOutcomesAfter(resp) == IF resp.ok THEN SearchSaveOutcomes ELSE {"not asked"}

\* scraper.search(query, search_type, use_cache) with the network answering
\* resp and the file system letting the save end as sv
Search(query, search_type, use_cache, resp, sv) ==
    /\ calls < MaxCalls
    /\ \E a \in {[op |-> "search", at |-> now, query |-> query, search_type |-> search_type,
                  use_cache |-> use_cache, resp |-> resp, save |-> sv]} :
          \E out \in {SearchRun([now |-> now, cache |-> cache, last |-> last_request_time], a)} :
             /\ lookup' = IF Reached(out.evts, "cache_lookup")
                          THEN LookupKind(cache, now, get_cache_key(query, search_type))
                          ELSE "skipped"
             /\ now' = out.now
             /\ cache' = out.cache
             /\ last_request_time' = out.last
             /\ ret' = out.ret
             /\ evts' = out.evts
             /\ call' = a
             \* the GET leaves as soon as the rate limiter lets the call go on
             /\ sent' = IF Reached(out.evts, "get") THEN Append(sent, out.now) ELSE sent
    /\ calls' = calls + 1
    /\ UNCHANGED <<ticks, obj, vq, vres, b_last_request_time, b_page,
                   pc, retries, attempts>>

\* the clock advances by a part of the rate limiter's interval or by a cache lifetime
TickSteps == {1, CACHE_TTL}

\* time passes between calls: the first call is made at StartTime
Tick(d) ==
    /\ ticks < MaxTicks
    /\ 0 < calls /\ calls < MaxCalls
    /\ now' = now + d
    /\ ticks' = ticks + 1
    /\ UNCHANGED <<cache, last_request_time, call, ret, evts, lookup, calls,
                   obj, vq, vres, b_last_request_time, b_page, sent,
                   pc, retries, attempts>>

Next ==
    \/ \E q \in Queries, t \in SearchTypes, uc \in BOOLEAN :
          \E resp \in ResponsesTo(q, t, uc) :
             \E sv \in SaveOutcomesAfter(resp) : Search(q, t, uc, resp, sv)
    \/ \E d \in TickSteps : Tick(d)

Spec == Init /\ [][Next]_vars

-----------------------------------------------------------------------------
(* Claims about the scraper, checked under Spec *)

IsSearchStep == calls' # calls /\ call'.op = "search"
SearchedPath == get_cache_path(get_cache_key(call.query, call.search_type))

\* C1: a search with use_cache that finds a readable, unexpired entry for its key
\* returns that entry's result and does no rate-limit wait, no HTTP request and
\* no cache write, also when the cached result has no books.
C1_CacheHitShortCircuits ==
    [][(IsSearchStep /\ validate_search_query(call'.query).ok /\ call'.use_cache
        /\ LoadFromCacheTry(cache, now, get_cache_key(call'.query, call'.search_type)).kind
              = "SearchResult")
       => /\ ret' = LoadFromCacheTry(cache, now,
                                     get_cache_key(call'.query, call'.search_type))
          /\ ~Reached(evts', "rate_limit")
          /\ ~Reached(evts', "get")
          /\ ~Reached(evts', "cache_write")
          /\ cache' = cache
          /\ now' = now]_vars

\* C6: a search whose query fails validation returns None and changes nothing:
\* no cache entry is touched, last_request_time keeps its value, nothing is
\* requested and nothing is waited for.
C6_InvalidQueryChangesNothing ==
    [][(IsSearchStep /\ ~validate_search_query(call'.query).ok)
       => /\ ret' = PyNone
          /\ evts' = <<"validate">>
          /\ cache' = cache
          /\ last_request_time' = last_request_time
          /\ now' = now]_vars

\* an invalid query is rejected by an instance that has a cache entry and has
\* made a request before
C6_Witness ==
    /\ call.op = "search"
    /\ ~validate_search_query(call.query).ok
    /\ ret = PyNone
    /\ last_request_time # 0
    /\ \E p \in CachePaths : cache[p] # NoFile

\* C7: when the HTTP request of a search fails, the search returns None and
\* every cache entry is exactly as it was before the call.
C7_NetworkFailureLeavesCache ==
    [][(IsSearchStep /\ Reached(evts', "get") /\ ~call'.resp.ok)
       => /\ ret' = PyNone
          /\ cache' = cache
          /\ ~Reached(evts', "cache_write")]_vars

\* a failed request of a search whose key already has an entry
C7_Witness ==
    /\ call.op = "search"
    /\ Reached(evts, "get")
    /\ ~call.resp.ok
    /\ ret = PyNone
    /\ cache[SearchedPath] # NoFile

\* C8: search never raises: whatever the query, the cache, the network and the
\* file system do, it returns a SearchResult or None.
C8_SearchNeverRaises ==
    call.op = "search" => ret.kind \in {"SearchResult", "none"}

\* a search that read a corrupt entry, reached the network and failed to save
C8_Witness ==
    /\ call.op = "search"
    /\ lookup = "corrupt"
    /\ call.resp.ok
    /\ call.save = "write_failed"
    /\ ret.kind = "SearchResult"

\* C9: a successful save leaves, under the key, exactly the new result, and a
\* search returns the same SearchResult whether its save succeeds or fails.
C9_SaveIsBestEffort ==
    [][(IsSearchStep /\ Reached(evts', "cache_write"))
       => LET st == [now |-> now, cache |-> cache, last |-> last_request_time]
              path == get_cache_path(get_cache_key(call'.query, call'.search_type))
          IN  /\ ret'.kind = "SearchResult"
              /\ ret' = SearchRun(st, [call' EXCEPT !.save = "ok"]).ret
              /\ call'.save = "ok" =>
                    cache'[path] = File(now', [fmt |-> "json", doc |-> CacheDocument(ret')])]_vars

\* a search whose save failed over an existing entry and still returned its result
C9_Witness ==
    /\ call.op = "search"
    /\ call.save = "write_failed"
    /\ lookup \in {"expired", "empty hit", "corrupt"}
    /\ ret.kind = "SearchResult"
    /\ Len(ret.books) = 2

-----------------------------------------------------------------------------
(* The record model used directly by a caller: SpecModel *)

MaxBooks == 3
MaxTotal == 3

\* SearchResult(query=..., books=..., total_results=..., search_type=...)
Construct(query, books, total_results, search_type) ==
    /\ obj' = SearchResult(query, books, total_results, search_type, now)
    /\ UNCHANGED <<now, cache, last_request_time, call, ret, evts, lookup, calls, ticks,
                   vq, vres, b_last_request_time, b_page, sent,
                   pc, retries, attempts>>

\* obj.add_book(book)
AddBook(book) ==
    /\ obj.kind = "SearchResult"
    /\ Len(obj.books) < MaxBooks
    /\ obj' = add_book(obj, book)
    /\ UNCHANGED <<now, cache, last_request_time, call, ret, evts, lookup, calls, ticks,
                   vq, vres, b_last_request_time, b_page, sent,
                   pc, retries, attempts>>

NextModel ==
    \/ \E q \in ValidQueries, bs \in BookLists, n \in 0..MaxTotal, t \in SearchTypes :
          Construct(q, bs, n, t)
    \/ \E b \in {BookA, BookB} : AddBook(b)

SpecModel == Init /\ [][NextModel]_vars

\* C2: every SearchResult a caller can hold - constructed directly, grown by
\* add_book, returned by search or loaded from the cache - has
\* total_results = len(books).
C2_TotalMatchesBooks ==
    \A r \in {obj, ret} : r.kind = "SearchResult" => r.total_results = Len(r.books)

-----------------------------------------------------------------------------
(* validate_search_query as a function of its input: SpecValidate *)

CoreLens ==
    {0, MIN_QUERY_LEN - 1, MIN_QUERY_LEN, MIN_QUERY_LEN + 1,
     MAX_QUERY_LEN - 1, MAX_QUERY_LEN, MAX_QUERY_LEN + 1}

\* None, numbers, and strings of letters between leading and trailing blanks
ValidateInputs ==
    {PyNone, PyInt(0), PyInt(5)} \cup
    {PyStr(Repeat(" ", l) \o Repeat("a", c) \o Repeat(" ", t)) :
        l \in 0..MaxPad, c \in CoreLens, t \in 0..MaxPad}

InitValidate ==
    /\ now = StartTime
    /\ cache = [p \in CachePaths |-> NoFile]
    /\ last_request_time = 0
    /\ call = [op |-> "none"]
    /\ ret = PyNone
    /\ evts = <<>>
    /\ lookup = "skipped"
    /\ calls = 0
    /\ ticks = 0
    /\ obj = PyNone
    /\ vq \in ValidateInputs
    /\ vres = PyNone
    /\ b_last_request_time = 0
    /\ b_page = FALSE
    /\ sent = <<>>
    /\ pc = "idle"
    /\ retries = REQUEST_RETRY_ATTEMPTS
    /\ attempts = <<>>

Validate ==
    /\ vres = PyNone
    /\ vres' = validate_search_query(vq)
    /\ UNCHANGED <<now, cache, last_request_time, call, ret, evts, lookup, calls, ticks,
                   obj, vq, b_last_request_time, b_page, sent,
                   pc, retries, attempts>>

NextValidate == Validate

SpecValidate == InitValidate /\ [][NextValidate]_vars

Rejected(r) == r.ok = FALSE /\ r.error # PyNone
Accepted(r) == r.ok = TRUE /\ r.error = PyNone

\* C5 as claimed: a query is rejected, with a message, when it is empty or
\* absent, when it strips to fewer than 2 characters, and whenever it is longer
\* than 500 characters; every other string is accepted with no message.
C5_AsClaimed ==
    vres # PyNone =>
        IF \/ ~Truthy(vq)
           \/ ~IsStr(vq)
           \/ Len(Strip(vq.s)) < 2
           \/ Len(vq.s) > 500
        THEN Rejected(vres)
        ELSE Accepted(vres)

\* C5 as amended: the length limit, like the minimum, is applied to the query
\* stripped of surrounding whitespace.
C5_Validation ==
    vres # PyNone =>
        IF \/ ~Truthy(vq)
           \/ ~IsStr(vq)
           \/ Len(Strip(vq.s)) < 2
           \/ Len(Strip(vq.s)) > 500
        THEN Rejected(vres)
        ELSE Accepted(vres)

\* a query of more than 500 characters that strips to 500 and is accepted
C5_Witness ==
    /\ vres # PyNone
    /\ IsStr(vq)
    /\ Len(vq.s) > 500
    /\ Len(Strip(vq.s)) = 500
    /\ Accepted(vres)

-----------------------------------------------------------------------------
(* catalog/browser_search.py: one BrowserSearcher instance: SpecBrowser *)

MaxStartTime == 2

Unasked == "not asked"

StartsAlways(st) == TRUE

\* if not self.browser.session.page
NeedsStart(st) == ~st.page

\* BrowserSearcher.search.  st is the searcher's state at the call, a the call:
\* its arguments and what the browser does during it (whether and how fast it
\* starts, whether navigation succeeds, whether the form and the HTML are there).
BrowserRun(st, a) ==
    IF ~validate_search_query(a.query).ok
    THEN [now |-> st.now, last |-> st.last, page |-> st.page, ret |-> PyNone,
          evts |-> <<"validate">>, sent |-> <<>>]
    ELSE
    LET rl == RespectRateLimit(st.now, st.last)
        starts == NeedsStart(st)
        t_nav == IF starts THEN rl.now + a.start_s ELSE rl.now
        steps0 == IF starts THEN <<"validate", "rate_limit", "start">>
                            ELSE <<"validate", "rate_limit">>
        end(t, page, r, steps, out) ==
            [now |-> t, last |-> rl.last, page |-> page, ret |-> r,
             evts |-> steps, sent |-> out]
    IN  IF starts /\ a.start # "ok"
        THEN end(t_nav, FALSE, PyNone, steps0, <<>>)
        ELSE IF a.nav # "ok"
             THEN \* navigate returned False, or raised into the outer except
                  end(t_nav, TRUE, PyNone, steps0 \o <<"navigate">>, <<t_nav>>)
             ELSE IF a.form # "found"
                  THEN end(t_nav, TRUE, PyNone, steps0 \o <<"navigate", "wait_form">>,
                           <<t_nav>>)
                  ELSE IF ~Truthy(a.html)
                       THEN end(t_nav, TRUE, PyNone,
                                steps0 \o <<"navigate", "wait_form", "get_html">>, <<t_nav>>)
                       ELSE LET books == parse_search_results(a.html)
                                created == SearchResult(a.query, books, Len(books),
                                                        a.search_type, t_nav)
                                result == [created EXCEPT !.search_time_ms =
                                              PyInt((t_nav - st.now) * 1000)]
                            IN  end(t_nav, TRUE, result,
                                    steps0 \o <<"navigate", "wait_form", "get_html", "parse">>,
                                    <<t_nav>>)

\* searcher.search(query, search_type) with the browser behaving as given
BrowserSearch(query, search_type, start, start_s, nav, form, html) ==
    /\ calls < MaxCalls
    /\ \E a \in {[op |-> "browser_search", at |-> now, query |-> query,
                  search_type |-> search_type, start |-> start, start_s |-> start_s,
                  nav |-> nav, form |-> form, html |-> html]} :
          \E out \in {BrowserRun([now |-> now, last |-> b_last_request_time,
                                  page |-> b_page], a)} :
             /\ now' = out.now
             /\ b_last_request_time' = out.last
             /\ b_page' = out.page
             /\ ret' = out.ret
             /\ evts' = out.evts
             /\ sent' = sent \o out.sent
             /\ call' = a
    /\ calls' = calls + 1
    /\ UNCHANGED <<cache, last_request_time, lookup, ticks, obj, vq, vres,
                   pc, retries, attempts>>

\* the browser is asked only for what the call consumes
StartsOf(query) ==
    IF validate_search_query(query).ok /\ ~b_page THEN {"ok", "fail"} ELSE {Unasked}
StartTimesOf(start) == IF start = Unasked THEN {0} ELSE 0..MaxStartTime
NavsOf(query, start) ==
    IF validate_search_query(query).ok /\ (b_page \/ start = "ok")
    THEN {"ok", "fail", "raise"} ELSE {Unasked}
FormsOf(nav) == IF nav = "ok" THEN {"found", "missing"} ELSE {Unasked}
HtmlsOf(form) == IF form = "found" THEN {PyNone} \cup {Html(p) : p \in Pages} ELSE {PyNone}

NextBrowser ==
    \/ \E q \in Queries, t \in SearchTypes :
          \E start \in StartsOf(q) :
             \E start_s \in StartTimesOf(start), nav \in NavsOf(q, start) :
                \E form \in FormsOf(nav) :
                   \E html \in HtmlsOf(form) :
                      BrowserSearch(q, t, start, start_s, nav, form, html)
    \/ \E d \in TickSteps : Tick(d)

SpecBrowser == Init /\ [][NextBrowser]_vars

\* C10: the outbound requests of any two consecutive searches of one instance
\* that reach the network are issued at least RATE_LIMIT_DELAY apart.
C10_RequestsSpaced ==
    \A i \in 1..(Len(sent) - 1) : sent[i + 1] - sent[i] >= RATE_LIMIT_DELAY

-----------------------------------------------------------------------------
(* The cache store used on its own: _save_to_cache and _load_from_cache        *)
(* called directly, with the clock running: SpecCache                         *)

\* the results handed to _save_to_cache, total_results in step with the books or not
SaveResults ==
    {SearchResult(PyStr(<<"a", " ", "b">>), <<>>, 0, Keyword, StartTime),
     SearchResult(PyStr(<<"a", " ", "b">>), <<BookB, BookA>>, 2, Keyword, StartTime),
     SearchResult(PyStr(<<"A", "_", "b">>), <<BookA>>, 0, ByTitle, StartTime),
     SearchResult(PyStr(<<"A", "_", "b">>), <<BookA, BookB>>, 2, ByTitle, StartTime)}

\* scraper._save_to_cache(cache_key, result), the file system letting it end as outcome
CacheSave(cache_key, result, outcome) ==
    /\ calls < MaxCalls
    /\ LET sv == SaveToCache(cache, now, cache_key, result, outcome)
       IN  /\ cache' = sv.cache
           /\ ret' = sv.exc
    /\ call' = [op |-> "save", at |-> now, key |-> cache_key, result |-> result, outcome |-> outcome]
    /\ evts' = <<"cache_write">>
    /\ lookup' = "skipped"
    /\ calls' = calls + 1
    /\ UNCHANGED <<now, last_request_time, ticks, obj, vq, vres,
                   b_last_request_time, b_page, sent,
                   pc, retries, attempts>>

CacheLoadTouching(cache_key) ==
    /\ calls < MaxCalls
    /\ ret' = LoadFromCache(cache, now, cache_key)
    /\ call' = [op |-> "load", at |-> now, key |-> cache_key]
    /\ evts' = <<"cache_lookup">>
    /\ lookup' = LookupKind(cache, now, cache_key)
    /\ calls' = calls + 1
    /\ cache' = IF lookup' = "hit"
                THEN [cache EXCEPT ![get_cache_path(cache_key)].mtime = now]
                ELSE cache
    /\ UNCHANGED <<now, last_request_time, ticks, obj, vq, vres,
                   b_last_request_time, b_page, sent,
                   pc, retries, attempts>>

\* scraper._load_from_cache(cache_key)
CacheLoad(cache_key) ==
    /\ calls < MaxCalls
    /\ ret' = LoadFromCache(cache, now, cache_key)
    /\ call' = [op |-> "load", at |-> now, key |-> cache_key]
    /\ evts' = <<"cache_lookup">>
    /\ lookup' = LookupKind(cache, now, cache_key)
    /\ calls' = calls + 1
    /\ UNCHANGED <<now, cache, last_request_time, ticks, obj, vq, vres,
                   b_last_request_time, b_page, sent,
                   pc, retries, attempts>>

\* the clock advances to either side of the cache lifetime
CacheTickSteps == {1, CACHE_TTL - 1, CACHE_TTL + 1}

NextCache ==
    \/ \E k \in CacheKeys, r \in SaveResults, o \in SaveOutcomes : CacheSave(k, r, o)
    \/ \E k \in CacheKeys : CacheLoad(k)
    \/ \E d \in CacheTickSteps : Tick(d)

SpecCache == Init /\ [][NextCache]_vars

SameResult(x, r) ==
    /\ x.kind = "SearchResult"
    /\ x.query = r.query
    /\ x.search_type = r.search_type
    /\ x.total_results = r.total_results
    /\ x.books = r.books

C4_TtlBoundary ==
    call.op = "load" =>
        LET f == cache[get_cache_path(call.key)]
        IN  /\ f.kind = "absent" => ret = PyNone
            /\ (f.kind = "file" /\ call.at - f.mtime > CACHE_TTL) => ret = PyNone
            /\ (f.kind = "file" /\ f.text.fmt = "json" /\ call.at - f.mtime < CACHE_TTL)
                   => ret.kind = "SearchResult"

\* an entry loaded one second after its TTL has elapsed
C4_Witness ==
    /\ call.op = "load"
    /\ cache[get_cache_path(call.key)].kind = "file"
    /\ cache[get_cache_path(call.key)].text.fmt = "json"
    /\ call.at - cache[get_cache_path(call.key)].mtime = CACHE_TTL + 1
    /\ ret = PyNone

-----------------------------------------------------------------------------
(* The session's retry policy: one GET of a search, attempt by attempt.       *)
(* _create_session mounts HTTPAdapter(max_retries=Retry(total=                 *)
(* REQUEST_RETRY_ATTEMPTS, backoff_factor=1, status_forcelist=...)); every     *)
(* session.get starts from that Retry: SpecRetry                               *)

\* Retry(status_forcelist=[429, 500, 502, 503, 504])
STATUS_FORCELIST == {429, 500, 502, 503, 504}
\* the statuses for which Retry honours a Retry-After header (respect_retry_after_header
\* keeps its default)
RETRY_AFTER_STATUS_CODES == {413, 429, 503}
BACKOFF_FACTOR == 1

\* what one attempt is answered: a response, with or without a Retry-After
\* header, or a failure of the connection
Answer(status, retry_after, page) ==
    [kind |-> "response", status |-> status, retry_after |-> retry_after, page |-> page]
ConnectionFailed == [kind |-> "error"]
Answers ==
    {ConnectionFailed, Answer(200, PyNone, <<DivA, DivB>>), Answer(413, PyInt(1), <<>>)}
    \cup {Answer(s, PyNone, <<>>) : s \in {404, 413, 429, 500, 502, 503, 504}}

\* the number of searches whose GET is followed attempt by attempt
MaxSends == 1

\* Retry.is_retry for a GET, an allowed method
is_retry(total, status, has_retry_after) ==
    \/ status \in STATUS_FORCELIST
    \/ (total # 0 /\ has_retry_after /\ status \in RETRY_AFTER_STATUS_CODES)

ExhaustedAtZero(total) == total <= 0

\* Retry.is_exhausted: total is the only count that is set
is_exhausted(total) == total < 0

\* Retry.get_backoff_time after n consecutive failed attempts
get_backoff_time(n) == IF n <= 1 THEN 0 ELSE BACKOFF_FACTOR * 2 ^ (n - 1)

\* whether the attempt answered o is followed by Retry.increment
Increments(o) ==
    IF o.kind = "error" THEN TRUE ELSE is_retry(retries, o.status, o.retry_after # PyNone)

\* whether another attempt follows the one answered o
TriesAgain(o) == Increments(o) /\ ~is_exhausted(retries - 1)

\* what session.get and raise_for_status hand to search once no attempt follows
Outcome(o) ==
    IF Increments(o)
    THEN \* MaxRetryError: requests raises RetryError or ConnectionError
         [ok |-> FALSE, error |-> "RequestException"]
    ELSE IF o.status >= 400
         THEN \* raise_for_status raises HTTPError
              [ok |-> FALSE, error |-> "RequestException"]
         ELSE [ok |-> TRUE, page |-> o.page]

\* search(query, search_type, use_cache=False) up to its first attempt
SendGet(query, search_type) ==
    /\ pc = "idle"
    /\ calls < MaxSends
    /\ validate_search_query(query).ok
    /\ \E rl \in {RespectRateLimit(now, last_request_time)} :
          /\ now' = rl.now
          /\ last_request_time' = rl.last
          /\ sent' = Append(sent, rl.now)
    /\ call' = [op |-> "search", at |-> now, query |-> query, search_type |-> search_type,
                use_cache |-> FALSE]
    /\ pc' = "sending"
    /\ retries' = REQUEST_RETRY_ATTEMPTS
    /\ attempts' = <<>>
    /\ ret' = PyNone
    /\ evts' = <<"validate">>
    /\ lookup' = "skipped"
    /\ calls' = calls + 1
    /\ UNCHANGED <<cache, ticks, obj, vq, vres, b_last_request_time, b_page>>

\* one attempt of the GET, answered o: the session sleeps and tries again, or
\* the search goes on to its end, the save ending as sv
Attempt(o, sv) ==
    /\ pc = "sending"
    /\ attempts' = Append(attempts, o)
    /\ IF TriesAgain(o)
       THEN /\ retries' = retries - 1
            /\ now' = now + (IF o.kind = "response" /\ Truthy(o.retry_after)
                             THEN o.retry_after.n
                             ELSE get_backoff_time(Len(attempts) + 1))
            /\ UNCHANGED <<pc, cache, ret, evts, call>>
       ELSE /\ retries' = IF Increments(o) THEN retries - 1 ELSE retries
            /\ pc' = "idle"
            /\ \E a \in {[op |-> "search", at |-> call.at, query |-> call.query,
                          search_type |-> call.search_type, use_cache |-> FALSE,
                          resp |-> Outcome(o), save |-> sv]} :
                  \E out \in {SearchRequest([now |-> call.at, cache |-> cache,
                                             last |-> last_request_time],
                                            [now |-> now, last |-> last_request_time], a,
                                            get_cache_key(call.query, call.search_type),
                                            evts)} :
                     /\ now' = out.now
                     /\ cache' = out.cache
                     /\ ret' = out.ret
                     /\ evts' = out.evts
                     /\ call' = a
    /\ UNCHANGED <<last_request_time, lookup, calls, ticks, obj, vq, vres,
                   b_last_request_time, b_page, sent>>

\* the file system is asked only when the search gets as far as the save
SaveOutcomesOf(o) ==
    IF ~TriesAgain(o) /\ Outcome(o).ok THEN SearchSaveOutcomes ELSE {"not asked"}

NextRetry ==
    \/ \E t \in SearchTypes : SendGet(PyStr(<<"a", " ", "b">>), t)
    \/ \E o \in Answers : \E sv \in SaveOutcomesOf(o) : Attempt(o, sv)

SpecRetry == Init /\ [][NextRetry]_vars

\* an attempt that the policy, as stated by C11, lets be followed by another
RetryableAsClaimed(o) == o.kind = "error" \/ o.status \in {429, 500, 502, 503, 504}

\* C11 as claimed: a search makes at most REQUEST_RETRY_ATTEMPTS = 3 attempts in
\* total, an attempt is followed by another only if the connection failed or
\* the status was 429, 500, 502, 503 or 504, and a search whose attempts are
\* exhausted returns None.
C11_AsClaimed ==
    /\ Len(attempts) <= 3
    /\ \A i \in 1..(Len(attempts) - 1) : RetryableAsClaimed(attempts[i])
    /\ (pc = "idle" /\ Len(attempts) >= 3 /\ RetryableAsClaimed(attempts[Len(attempts)]))
          => ret = PyNone

\* an attempt that is followed by another while retries are left
Retryable(o) ==
    \/ o.kind = "error"
    \/ o.status \in {429, 500, 502, 503, 504}
    \/ (o.status = 413 /\ o.retry_after # PyNone)

\* C11 as amended: a GET makes at most 1 + REQUEST_RETRY_ATTEMPTS = 4 attempts,
\* the first and up to three retries; an attempt is followed by another exactly
\* when fewer than four were made and the connection failed, the status was
\* 429, 500, 502, 503 or 504, or the status was 413 with a Retry-After header;
\* no other 4xx status is retried; a search whose last attempt failed returns None.
C11_RetryPolicy ==
    /\ Len(attempts) <= 4
    /\ \A i \in 1..(Len(attempts) - 1) : Retryable(attempts[i])
    /\ (pc = "idle" /\ attempts # <<>>)
          => LET o == attempts[Len(attempts)]
             IN  /\ Len(attempts) = 4 \/ ~Retryable(o)
                 /\ (o.kind = "error" \/ o.status >= 400) => ret = PyNone
                 /\ (o.kind = "response" /\ o.status = 200) => ret.kind = "SearchResult"

\* a search that ended after four failed attempts, the last one a 503
C11_Witness ==
    /\ pc = "idle"
    /\ Len(attempts) = 4
    /\ attempts[1].kind = "error"
    /\ attempts[2].kind = "response" /\ attempts[2].status = 413
    /\ attempts[4].kind = "response" /\ attempts[4].status = 503
    /\ ret = PyNone

-----------------------------------------------------------------------------
(* utils/validators.py: validate_isbn as a function of its input: SpecIsbn *)

\* The upper-case test of the last character passes for every character that
\* passed the first test (digits and "X").
validate_isbn10(isbn) ==
    IF \E i \in 1..Len(isbn) : ~(IsDigit(isbn[i]) \/ isbn[i] = "X")
    THEN [ok |-> FALSE, error |-> Msg("ISBN-10 must contain only digits (and X as check digit)")]
    ELSE IF \E i \in 1..(Len(isbn) - 1) : IntOf(isbn[i]) < 0
         THEN [ok |-> FALSE, error |-> Msg("ISBN-10 must contain only digits")]
         ELSE LET checksum == SumSeq([i \in 1..(Len(isbn) - 1) |->
                                          IntOf(isbn[i]) * (10 - (i - 1))])
                  check == (10 - (checksum % 10)) % 10
                  check_str == IF check = 10 THEN "X" ELSE StrOf(check)
              IN  IF isbn[Len(isbn)] # check_str
                  THEN [ok |-> FALSE, error |-> Msg("Invalid ISBN-10 checksum")]
                  ELSE [ok |-> TRUE, error |-> PyNone]

validate_isbn13(isbn) ==
    IF \E i \in 1..Len(isbn) : ~IsDigit(isbn[i])
    THEN [ok |-> FALSE, error |-> Msg("ISBN-13 must contain only digits")]
    ELSE IF \E i \in 1..Len(isbn) : IntOf(isbn[i]) < 0
         THEN [ok |-> FALSE, error |-> Msg("ISBN-13 must contain only digits")]
         ELSE LET checksum == SumSeq([i \in 1..(Len(isbn) - 1) |->
                                          IntOf(isbn[i]) * (IF (i - 1) % 2 = 0 THEN 1 ELSE 3)])
                  check == (10 - (checksum % 10)) % 10
              IN  IF IntOf(isbn[Len(isbn)]) # check
                  THEN [ok |-> FALSE, error |-> Msg("Invalid ISBN-13 checksum")]
                  ELSE [ok |-> TRUE, error |-> PyNone]

CleanIsbn(s) == Without(Without(Strip(s), "-"), " ")

validate_isbn(isbn) ==
    IF ~Truthy(isbn) \/ ~IsStr(isbn)
    THEN [ok |-> FALSE, error |-> Msg("ISBN must be a non-empty string")]
    ELSE LET cleaned == CleanIsbn(isbn.s)
         IN  IF Len(cleaned) = 10
             THEN validate_isbn10(cleaned)
             ELSE IF Len(cleaned) = 13
                  THEN validate_isbn13(cleaned)
                  ELSE [ok |-> FALSE, error |-> Msg("ISBN must be 10 or 13 characters")]

Isbn10 == <<"0", "4", "5", "1", "5", "2", "4", "9", "3", "4">>
Isbn10X == <<"0", "8", "0", "4", "4", "2", "9", "5", "7", "X">>
Isbn10Zero == <<"0", "0", "0", "0", "0", "0", "0", "0", "0", "0">>
Isbn13 == <<"9", "7", "8", "3", "8", "3", "3", "2", "3", "5", "8", "0", "1">>
Isbn13Hyphens ==
    <<"9", "7", "8", "-", "3", "-", "8", "3", "3", "2", "-", "3", "5", "8", "0", "-", "1">>
Isbn13Spaces ==
    <<" ", "9", "7", "8", " ", "3", "8", "3", "3", "2", "3", "5", "8", "0", "1">>

LastChars == {Digits[i] : i \in 1..10} \cup {"X", "x", "²"}

WithLast(s, c) == [s EXCEPT ![Len(s)] = c]

\* None, a number, the empty string, strings of other lengths, and the sample
\* numbers with every last character
IsbnInputs ==
    {PyNone, PyInt(5), PyStr(<<>>), PyStr(SubSeq(Isbn10, 1, 9)),
     PyStr(Isbn13 \o <<"0">>), PyStr(WithLast(Isbn10, "4") \o <<"-">>),
     PyStr([Isbn10 EXCEPT ![2] = "X"]), PyStr([Isbn13 EXCEPT ![2] = "²"])}
    \cup {PyStr(WithLast(s, c)) :
            s \in {Isbn10, Isbn10X, Isbn10Zero, Isbn13, Isbn13Hyphens, Isbn13Spaces},
            c \in LastChars}

InitIsbn ==
    /\ now = StartTime
    /\ cache = [p \in CachePaths |-> NoFile]
    /\ last_request_time = 0
    /\ call = [op |-> "none"]
    /\ ret = PyNone
    /\ evts = <<>>
    /\ lookup = "skipped"
    /\ calls = 0
    /\ ticks = 0
    /\ obj = PyNone
    /\ vq \in IsbnInputs
    /\ vres = PyNone
    /\ b_last_request_time = 0
    /\ b_page = FALSE
    /\ sent = <<>>
    /\ pc = "idle"
    /\ retries = REQUEST_RETRY_ATTEMPTS
    /\ attempts = <<>>

ValidateIsbn ==
    /\ vres = PyNone
    /\ vres' = validate_isbn(vq)
    /\ UNCHANGED <<now, cache, last_request_time, call, ret, evts, lookup, calls, ticks,
                   obj, vq, b_last_request_time, b_page, sent,
                   pc, retries, attempts>>

NextIsbn == ValidateIsbn

SpecIsbn == InitIsbn /\ [][NextIsbn]_vars

\* the ISBN-10 check character of nine digits: the weighted sum of all ten
\* digits is a multiple of 11, with "X" standing for ten
CheckChar10(d) ==
    LET checksum == SumSeq([i \in 1..9 |-> IntOf(d[i]) * (11 - i)])
        check == (11 - (checksum % 11)) % 11
    IN  IF check = 10 THEN "X" ELSE StrOf(check)

\* the ISBN-13 check character of twelve digits: weights 1 and 3 alternate
CheckChar13(d) ==
    LET checksum == SumSeq([i \in 1..12 |-> IntOf(d[i]) * (IF i % 2 = 1 THEN 1 ELSE 3)])
    IN  StrOf((10 - (checksum % 10)) % 10)

AllDecimal(s) == \A i \in 1..Len(s) : IntOf(s[i]) >= 0

HasCorrectCheckDigit(s) ==
    \/ /\ Len(s) = 10
       /\ AllDecimal(SubSeq(s, 1, 9))
       /\ s[10] = CheckChar10(SubSeq(s, 1, 9))
    \/ /\ Len(s) = 13
       /\ AllDecimal(SubSeq(s, 1, 12))
       /\ s[13] = CheckChar13(SubSeq(s, 1, 12))

\* C12: validate_isbn accepts a string that cleans (hyphens and spaces removed)
\* to 10 or 13 characters exactly when its last character is the correct check
\* digit of the digits before it; "0451524934" and "9783833235801" are accepted.
C12_IsbnChecksum ==
    (vres # PyNone /\ IsStr(vq) /\ Len(CleanIsbn(vq.s)) \in {10, 13}) =>
        (vres.ok <=> HasCorrectCheckDigit(CleanIsbn(vq.s)))

-----------------------------------------------------------------------------
(* The order of the steps of one search, checked under Spec *)

\* the steps of WebOPACScraper.search in the order of its code
PipelineSteps(use_cache) ==
    <<"validate">> \o (IF use_cache THEN <<"cache_lookup">> ELSE <<>>)
        \o <<"rate_limit", "get", "parse", "cache_write">>

IsPrefix(s, t) == Len(s) <= Len(t) /\ s = SubSeq(t, 1, Len(s))

Count(s, e) == Cardinality({i \in DOMAIN s : s[i] = e})

\* C13: the steps of a search are a prefix of validate, cache lookup (only with
\* use_cache), rate-limit wait, one GET, parse, cache write; nothing runs after
\* a failed validation, a cache hit or a failed GET; and a search that runs to
\* its end has made exactly one GET and one cache write.
C13_PipelineOrder ==
    call.op = "search" =>
        /\ IsPrefix(evts, PipelineSteps(call.use_cache))
        /\ ~validate_search_query(call.query).ok => evts = <<"validate">>
        /\ lookup \in {"hit", "empty hit"} => evts = <<"validate", "cache_lookup">>
        /\ (Reached(evts, "get") /\ ~call.resp.ok) => evts[Len(evts)] = "get"
        /\ (Reached(evts, "get") /\ call.resp.ok) =>
              /\ Count(evts, "get") = 1
              /\ Count(evts, "cache_write") = 1
              /\ evts = PipelineSteps(call.use_cache)

-----------------------------------------------------------------------------
(* catalog/parser.py: the detail page.  Its document is a sequence of nodes:  *)
(* headings and paragraphs with a text, blocks (div, main) with child         *)
(* elements, tables with rows of cells, and images.                           *)

Block(tag, class, elems) ==
    [kind |-> "Tag", tag |-> tag, class |-> class, elems |-> elems]
Cell(tag, text) == [kind |-> "Tag", tag |-> tag, text |-> text]
Table(rows) == [kind |-> "Tag", tag |-> "table", class |-> "", rows |-> rows]
Img(class, src) ==
    [kind |-> "Tag", tag |-> "img", class |-> class, text |-> <<>>, src |-> src]

IsBlock(node) == node.tag \in {"div", "main"}

RowText(row) == Concat([i \in 1..Len(row) |-> row[i].text])

\* Tag.get_text() of a node of the document
NodeText(node) ==
    IF node.tag = "table" THEN Concat([i \in 1..Len(node.rows) |-> RowText(node.rows[i])])
    ELSE IF IsBlock(node) THEN get_text(node)
    ELSE node.text

\* soup.get_text()
page_text(soup) == Concat([i \in 1..Len(soup.nodes) |-> NodeText(soup.nodes[i])])

\* the elements of the document in document order: each node, then its children
Descendants(soup) ==
    Concat([i \in 1..Len(soup.nodes) |->
               IF IsBlock(soup.nodes[i]) THEN <<soup.nodes[i]>> \o soup.nodes[i].elems
               ELSE <<soup.nodes[i]>>])

\* find over a sequence of elements: the first of those at the positions hits
First(s, hits) == IF hits = {} THEN PyNone ELSE s[SetMin(hits)]

\* CatalogParser._extract_field_by_label: the first occurrence of the label, in
\* any case, followed by colons or whitespace; the value runs to the end of the
\* line on which that gap ends
extract_field_by_label(soup, label) ==
    LET text == page_text(soup)
        lowered == Lower(text)
        wanted == Lower(label)
        n == Len(label)
        starts == {i \in 1..(Len(text) - n) :
                      /\ text[i + n] \in LabelGap
                      /\ SubSeq(lowered, i, i + n - 1) = wanted}
    IN  IF starts = {} THEN PyNone
        ELSE LET j == RunEnd(text, SetMin(starts) + n, LabelGap) + 1
                 value == Strip(SubSeq(text, j, LineEnd(text, j)))
             IN  IF value # <<>> THEN PyStr(value) ELSE PyNone

\* Tag.get_text(strip=True) of a table cell
cell_text(cell) == PyStr(Strip(cell.text))

\* the header test of _extract_exemplare_info on the first row of a table
IsExemplareHeader(row) ==
    LET cells == SelectSeq(row, LAMBDA c : c.tag \in {"th", "td"})
        joined == Concat([i \in 1..Len(cells) |->
                             (IF i = 1 THEN <<>> ELSE <<" ">>) \o Strip(cells[i].text)])
        header_text == Lower(joined)
    IN  Contains(header_text, <<"z", "w", "e", "i", "g", "s", "t", "e", "l", "l", "e">>) /\ Contains(header_text, <<"s", "t", "a", "t", "u", "s">>)

KeepStatus(status) == status

\* the status clean-up of _extract_exemplare_info
CleanStatus(status) ==
    IF Contains(Lower(status.s), <<"v", "e", "r", "f", "ü", "g", "b", "a", "r">>) THEN Msg("Available")
    ELSE IF Contains(Lower(status.s), <<"a", "u", "s", "g", "e", "l", "i", "e", "h", "e", "n">>) THEN Msg("Checked Out")
    ELSE status

\* the dict built for a row of at least 4 td cells
Exemplar(cells) ==
    [branch |-> cell_text(cells[1]),
     call_number |-> cell_text(cells[2]),
     section |-> cell_text(cells[3]),
     status |-> CleanStatus(cell_text(cells[4])),
     reservations |-> IF Len(cells) > 4 THEN cell_text(cells[5]) ELSE Msg("0"),
     medium_type |-> IF Len(cells) > 5 THEN cell_text(cells[6]) ELSE PyNone,
     barcode |-> IF Len(cells) > 7 THEN cell_text(cells[8]) ELSE PyNone]

RECURSIVE ExemplareOfRows(_)
\* the loop over the data rows of a copy table
ExemplareOfRows(rows) ==
    IF rows = <<>> THEN <<>>
    ELSE LET cells == SelectSeq(Head(rows), LAMBDA c : c.tag = "td")
         IN  IF Len(cells) >= 4 /\ Truthy(Exemplar(cells).branch)
             THEN <<Exemplar(cells)>> \o ExemplareOfRows(Tail(rows))
             ELSE ExemplareOfRows(Tail(rows))

\* the copies of one table: none unless its first row is the copy header
ExemplareOfTable(table) ==
    IF table.rows = <<>> \/ ~IsExemplareHeader(table.rows[1]) THEN <<>>
    ELSE ExemplareOfRows(Tail(table.rows))

ExemplareOfFirstTable(soup) ==
    LET tables == SelectSeq(soup.nodes, LAMBDA n : n.tag = "table")
        hits == {i \in 1..Len(tables) :
                    tables[i].rows # <<>> /\ IsExemplareHeader(tables[i].rows[1])}
    IN  IF hits = {} THEN <<>> ELSE ExemplareOfTable(tables[SetMin(hits)])

\* CatalogParser._extract_exemplare_info
extract_exemplare_info(soup) ==
    LET tables == SelectSeq(soup.nodes, LAMBDA n : n.tag = "table")
    IN  Concat([i \in 1..Len(tables) |-> ExemplareOfTable(tables[i])])

\* re.compile(r".*description|summary|content|abstract") searched in a class
IsDescriptionClass(class) ==
    class \in {"description", "book-description", "summary", "content", "main-content",
               "abstract"}

\* re.compile(r".*main|content") searched in a class
IsMainClass(class) == class \in {"main", "main-content", "content"}

\* Tag.get_text(strip=True): the strings of the element, each stripped, the
\* empty ones dropped, joined with nothing between them
stripped_text(elem) ==
    IF IsBlock(elem) THEN Concat([i \in 1..Len(elem.elems) |-> Strip(elem.elems[i].text)])
    ELSE Strip(elem.text)

IsParagraphOf100(e) == e.tag = "p" /\ Len(stripped_text(e)) >= 100

\* the test on a paragraph of the main content: text and len(text) > 100
IsLongParagraph(e) == e.tag = "p" /\ Len(stripped_text(e)) > 100

\* CatalogParser._extract_description
extract_description(soup) ==
    LET all == Descendants(soup)
        desc_elem == First(all, {i \in 1..Len(all) :
                                    /\ all[i].tag \in {"div", "p"}
                                    /\ IsDescriptionClass(all[i].class)})
        desc_text == IF desc_elem = PyNone THEN <<>> ELSE stripped_text(desc_elem)
        top == soup.nodes
        main_tag == First(top, {i \in 1..Len(top) : top[i].tag = "main"})
        main_content == IF main_tag # PyNone THEN main_tag
                        ELSE First(top, {i \in 1..Len(top) :
                                            /\ top[i].tag = "div"
                                            /\ IsMainClass(top[i].class)})
        long == IF main_content = PyNone THEN PyNone
                ELSE LET ps == main_content.elems
                     IN  First(ps, {i \in 1..Len(ps) : IsLongParagraph(ps[i])})
    IN  IF Len(desc_text) > 50 THEN PyStr(desc_text)
        ELSE IF long # PyNone THEN PyStr(stripped_text(long))
        ELSE PyNone

\* s.split(sub)[0]
BeforeFirst(s, sub) ==
    LET at == {i \in 1..(Len(s) - Len(sub) + 1) : SubSeq(s, i, i + Len(sub) - 1) = sub}
    IN  IF at = {} THEN s ELSE SubSeq(s, 1, SetMin(at) - 1)

RECURSIVE SplitStrip(_, _)
\* [part.strip() for part in s.split(sep)]
SplitStrip(s, sep) ==
    LET at == {i \in 1..Len(s) : s[i] = sep}
    IN  IF at = {} THEN <<PyStr(Strip(s))>>
        ELSE <<PyStr(Strip(SubSeq(s, 1, SetMin(at) - 1)))>>
             \o SplitStrip(SubSeq(s, SetMin(at) + 1, Len(s)), sep)

RECURSIVE Join(_, _)
\* sep.join(parts)
Join(parts, sep) ==
    IF parts = <<>> THEN <<>>
    ELSE IF Len(parts) = 1 THEN parts[1].s
    ELSE parts[1].s \o sep \o Join(Tail(parts), sep)

\* int(s.strip()) of a field value: None where int() raises ValueError
IntOrNone(s) ==
    IF s # <<>> /\ \A i \in 1..Len(s) : IsDecimal(s[i]) THEN PyInt(IntOfDigits(s))
    ELSE PyNone

\* re.search(r"^(\d+)\s*S\.", beschreibung)
PageCount(s) ==
    LET d == RunEnd(s, 1, DigitSet)
        w == RunEnd(s, d + 1, Whitespace)
    IN  IF d >= 1 /\ w + 2 <= Len(s) /\ s[w + 1] = "S" /\ s[w + 2] = "."
        THEN PyInt(IntOfDigits(SubSeq(s, 1, d)))
        ELSE PyNone

EmptyDict == [kind |-> "dict"]

\* the ISBN lines of parse_book_detail
detail_isbn(soup) ==
    LET isbn == extract_field_by_label(soup, <<"I", "S", "B", "N">>)
    IN  IF Truthy(isbn)
        THEN LET cleaned == Without(Without(isbn.s, "-"), " ")
             IN  IF Len(cleaned) \in {10, 13} THEN PyStr(cleaned) ELSE PyNone
        ELSE PyNone

LastCopy(exemplare_info) == exemplare_info[Len(exemplare_info)]

\* first_copy = exemplare_info[0]
first_copy(exemplare_info) == exemplare_info[1]

\* the try block of parse_book_detail once the document is parsed
BookDetails(soup) ==
    LET all == Descendants(soup)
        top == soup.nodes
        title_elem == First(all, {i \in 1..Len(all) : all[i].tag \in {"h1", "h2"}})
        author == extract_field_by_label(soup, <<"V", "e", "r", "f", "a", "s", "s", "e", "r">>)
        year_str == extract_field_by_label(soup, <<"J", "a", "h", "r">>)
        series_text == extract_field_by_label(soup, <<"R", "e", "i", "h", "e">>)
        beschreibung == extract_field_by_label(soup, <<"B", "e", "s", "c", "h", "r", "e", "i", "b", "u", "n", "g">>)
        keywords_text == extract_field_by_label(soup, <<"S", "c", "h", "l", "a", "g", "w", "ö", "r", "t", "e", "r">>)
        exemplare_info == extract_exemplare_info(soup)
        has_copy == exemplare_info # <<>>
        cover_by_class == First(top, {i \in 1..Len(top) :
                                         /\ top[i].tag = "img"
                                         /\ top[i].class \in {"cover", "thumbnail"}})
        cover_elem == IF cover_by_class # PyNone THEN cover_by_class
                      ELSE First(top, {i \in 1..Len(top) :
                                          /\ top[i].tag = "img"
                                          /\ top[i].src # PyNone
                                          /\ Contains(top[i].src.s, <<"c", "o", "v", "e", "r">>)})
    IN  [kind |-> "dict",
         title |-> IF title_elem # PyNone THEN get_text_strip(title_elem) ELSE PyNone,
         medium_type |-> extract_field_by_label(soup, <<"M", "e", "d", "i", "e", "n", "g", "r", "u", "p", "p", "e">>),
         author |-> IF Truthy(author)
                    THEN PyStr(Strip(BeforeFirst(author.s, <<"S", "u", "c", "h", "e", " ", "n", "a", "c", "h">>)))
                    ELSE author,
         isbn |-> detail_isbn(soup),
         publisher |-> extract_field_by_label(soup, <<"V", "e", "r", "l", "a", "g">>),
         publication_year |-> IF Truthy(year_str) THEN IntOrNone(year_str.s) ELSE PyNone,
         language |-> extract_field_by_label(soup, <<"S", "p", "r", "a", "c", "h", "e">>),
         series |-> IF Truthy(series_text)
                    THEN PyStr(Join(SplitStrip(series_text.s, ","), <<",", " ">>))
                    ELSE PyNone,
         original_title |-> extract_field_by_label(soup, <<"O", "r", "i", "g", "i", "n", "a", "l", "t", "i", "t", "e", "l">>),
         page_count |-> IF Truthy(beschreibung) THEN PageCount(beschreibung.s)
                        ELSE PyNone,
         keywords |-> IF Truthy(keywords_text) THEN SplitStrip(keywords_text.s, ",")
                      ELSE <<>>,
         availability |-> IF has_copy THEN first_copy(exemplare_info).status
                           ELSE Msg("Unknown"),
         location |-> IF has_copy THEN first_copy(exemplare_info).section
                       ELSE PyNone,
         call_number |-> IF has_copy THEN first_copy(exemplare_info).call_number
                          ELSE PyNone,
         barcode |-> IF has_copy THEN first_copy(exemplare_info).barcode
                      ELSE PyNone,
         branch |-> IF has_copy THEN first_copy(exemplare_info).branch
                     ELSE PyNone,
         exemplare |-> exemplare_info,
         description |-> extract_description(soup),
         cover_url |-> IF cover_elem # PyNone THEN cover_elem.src ELSE PyNone,
         url |-> PyNone]

ParseBookDetailUnguarded(html) ==
    LET soup == BeautifulSoup(html)
    IN  IF IsExc(soup) THEN soup ELSE BookDetails(soup)

\* CatalogParser.parse_book_detail
parse_book_detail(html) ==
    LET soup == BeautifulSoup(html)
    IN  IF IsExc(soup) THEN EmptyDict ELSE BookDetails(soup)

-----------------------------------------------------------------------------
(* catalog/parser.py as a function of the page it is given: SpecParser *)

MaxContainers == 2

Titled(class, title) == Div(class, PyStr(title), PyNone)

\* containers of every class, with and without a title, and an element that
\* has a result class but is not a div
ClassContainers ==
    {DivA, DivB, DivUntitled,
     Titled("result-item", <<"F">>), Titled("result", <<"G">>), Titled("result", <<"K">>),
     Titled("other", <<"L">>),
     [Titled("hit", <<"M">>) EXCEPT !.tag = "section"]}

TitleElem == Tag("h3", "title", <<" ", "D", "e", "r", " ", "T", "i", "t", "e", "l", " ">>, PyNone)
AuthorElem == Tag("p", "creator", <<"R", "o", "w", "l", "i", "n", "g", ",", " ", "J", ".", " ", "K", ".">>, PyNone)
LinkElem == Tag("a", "more", <<"m", "e", "h", "r">>, PyStr(<<"/", "d", "e", "t", "a", "i", "l", "/", "i", "d", "-", "4", "7", "1", "1", "/", "x", "9">>))
IsbnElem(text) == Tag("span", "isbn", text, PyNone)
StatusElem(tag, class, text) == Tag(tag, class, text, PyNone)
IndicatorElem(class) == Tag("span", class, <<>>, PyNone)
LocationElem == Tag("span", "branch", <<"Z", "a", "n", "k", "l", "h", "o", "f">>, PyNone)
MediumElem == Tag("span", "medium-type", <<"D", "V", "D">>, PyNone)
YearElem == Tag("span", "year", <<" ", "2", "0", "0", "5", " ">>, PyNone)

IsbnTexts ==
    {<<"I", "S", "B", "N", ":", " ", "9", "7", "8", "-", "3", "-", "8", "3", "3", "2", "-", "3", "5", "8", "0", "-", "1", " ">>, <<"I", "S", "B", "N", " ", "0", "4", "5", "1", "5", "2", "4", "9", "3", "4">>, <<"i", "s", "b", "n", ":", "\n", "0", "8", "0", "4", "4", "2", "9", "5", "7", "X", ".">>,
     <<"I", "S", "B", "N", ":", " ", "1", "2", "3">>, <<"I", "S", "B", "N", ":", " ", "9", "7", "8", "3", "8", "3", "3", "2", "3", "5", "8", "0", "1", "9">>, <<"I", "S", "B", "N", ":", " ", "9", "7", "8", " ", "3", " ", "8", "3", "3", "2", " ", "3", "5", "8", "0", " ", "1">>,
     <<"I", "S", "B", "N", ":", " ", "0", "4", "5", "1", "5", "2", "4", "9", "3", "4", "a", "b", "c">>, <<"I", "S", "B", "N", ":", " ">>, <<"I", "S", "B", "N", "-", "1", "3", ":", " ", "9", "7", "8", "3", "8", "3", "3", "2", "3", "5", "8", "0", "1">>,
     <<"I", "S", "B", "N", ":", " ", "3", "-", "8", "3", "3", "2", "-", "3", "5", "8", "0", " ">>, <<"I", "S", "B", "N", ":", "0", "4", "5", "1", "5", "2", "4", "9", "3", "-", "4", ",", " ", "I", "S", "B", "N", ":", " ", "1", "2", "3">>}

StatusTexts ==
    {<<"V", "e", "r", "f", "ü", "g", "b", "a", "r">>, <<" ", "A", "u", "s", "g", "e", "l", "i", "e", "h", "e", "n", " ">>, <<"A", "v", "a", "i", "l", "a", "b", "l", "e">>, <<"C", "h", "e", "c", "k", "e", "d", " ", "o", "u", "t">>, <<"B", "e", "s", "t", "e", "l", "l", "t">>,
     <<"O", "n", " ", "O", "r", "d", "e", "r">>, <<"r", "e", "s", "e", "r", "v", "i", "e", "r", "t", " ", "f", "ü", "r", " ", "S", "i", "e">>, <<"R", "e", "s", "e", "r", "v", "e", "d">>, <<"E", "n", "t", "l", "i", "e", "h", "e", "n", " ", "b", "i", "s", " ", "0", "1", ".", "0", "2", ".">>,
     <<"N", "i", "c", "h", "t", " ", "v", "e", "r", "f", "ü", "g", "b", "a", "r">>, <<"A", "u", "s", "g", "e", "l", "i", "e", "h", "e", "n", ",", " ", "R", "e", "s", "e", "r", "v", "e", "d">>, <<"R", "e", "s", "e", "r", "v", "i", "e", "r", "t", ",", " ", "b", "e", "s", "t", "e", "l", "l", "t">>, <<>>}

TheElems ==
    <<TitleElem, AuthorElem, LinkElem, IsbnElem(<<" ", "I", "S", "B", "N", ":", " ", "3", "-", "8", "3", "3", "2", "-", "3", "5", "8", "0", "-", "1", " ">>),
      StatusElem("span", "status", <<"V", "e", "r", "f", "ü", "g", "b", "a", "r">>), LocationElem, MediumElem, YearElem>>

\* s without its i-th element
Except(s, i) == SubSeq(s, 1, i - 1) \o SubSeq(s, i + 1, Len(s))

\* a titled container for every ISBN text, every status text and indicator
\* class, and the container with every element but one
FieldContainers ==
    {Container("hit", <<TitleElem, IsbnElem(t)>>) : t \in IsbnTexts}
    \cup {Container("hit", <<TitleElem, StatusElem("span", "availability", t)>>) :
            t \in StatusTexts}
    \cup {Container("hit", <<TitleElem, e, IndicatorElem("red")>>) :
            e \in {StatusElem("p", "status", <<"B", "e", "s", "t", "e", "l", "l", "t">>),
                   StatusElem("div", "status", <<"V", "e", "r", "f", "ü", "g", "b", "a", "r">>),
                   StatusElem("span", "note", <<"V", "e", "r", "f", "ü", "g", "b", "a", "r">>),
                   StatusElem("span", "status", <<"V", "e", "r", "f", "ü", "g", "b", "a", "r">>)}}
    \cup {Container("hit", <<TitleElem, IndicatorElem(c)>>) :
            c \in {"available", "green", "unavailable", "red", "grey"}}
    \cup {Container("hit", <<TitleElem, IndicatorElem("red"), IndicatorElem("green")>>),
          Container("hit", <<Tag("a", "hit-title", <<"\t">>, PyNone), AuthorElem>>),
          Container("hit", <<Tag("h2", "title", <<>>, PyNone), TitleElem>>),
          Container("hit", <<Tag("a", "title", <<"T", "i", "t", "e", "l", " ", "1", "9", "8", "4">>, PyStr(<<"h", "t", "t", "p", ":", "/", "/", "x", "/">>)),
                             Tag("a", "more", <<"m", "e", "h", "r">>, PyStr(<<>>))>>),
          Container("hit", TheElems)}
    \cup {Container("result", Except(TheElems, i)) : i \in 1..Len(TheElems)}

RECURSIVE SeqsUpTo(_, _)
\* the sequences of at most n elements of S
SeqsUpTo(S, n) ==
    IF n = 0 THEN {<<>>}
    ELSE LET shorter == SeqsUpTo(S, n - 1)
         IN  shorter \cup {Append(s, x) : s \in shorter, x \in S}

\* what the parser is handed: something that is not markup, a page of up to
\* MaxContainers containers, or a page with one container
ListInputs ==
    {PyNone, PyInt(0)}
    \cup {Html(p) : p \in SeqsUpTo(ClassContainers, MaxContainers)}
    \cup {Html(<<c>>) : c \in FieldContainers}

\* parser.parse_search_results(html); the parser keeps nothing between calls
ParseSearchResults(html) ==
    /\ call.op = "none"
    /\ call' = [op |-> "parse_search_results", html |-> html]
    /\ ret' = [kind |-> "list", items |-> parse_search_results(html)]
    /\ UNCHANGED <<now, cache, last_request_time, evts, lookup, calls, ticks,
                   obj, vq, vres, b_last_request_time, b_page, sent,
                   pc, retries, attempts>>

MaxRows == 2

Line(text) == Tag("p", "", text, PyNone)
Heading == Tag("h1", "", <<" ", "D", "a", "s", " ", "B", "u", "c", "h", " ", "d", "e", "r", " ", "Z", "a", "u", "b", "e", "r", "s", "t", "ä", "b", "e", " ", "\n">>, PyNone)

MetaLines ==
    <<Line(<<"M", "e", "d", "i", "e", "n", "g", "r", "u", "p", "p", "e", ":", " ", "K", "i", "n", "d", "e", "r", "b", "u", "c", "h", "\n">>),
      Line(<<"V", "e", "r", "f", "a", "s", "s", "e", "r", ":", " ", "P", "e", "t", "e", "r", "s", "o", "n", ",", " ", "M", "o", "n", "i", "q", "u", "e", " ", "S", "u", "c", "h", "e", " ", "n", "a", "c", "h", " ", "d", "i", "e", "s", "e", "m", " ", "V", "e", "r", "f", "a", "s", "s", "e", "r", "\n">>),
      Line(<<"J", "a", "h", "r", ":", " ", "2", "0", "1", "7", "\n">>),
      Line(<<"V", "e", "r", "l", "a", "g", ":", " ", "P", "a", "n", "i", "n", "i", "\n">>),
      Line(<<"S", "p", "r", "a", "c", "h", "e", ":", "\t", "D", "e", "u", "t", "s", "c", "h", " ", "\n">>),
      Line(<<"B", "e", "s", "c", "h", "r", "e", "i", "b", "u", "n", "g", ":", " ", "1", "4", "8", " ", "S", ".", " ", ":", " ", "I", "l", "l", ".", "\n">>),
      Line(<<"R", "e", "i", "h", "e", ":", " ", "H", "a", "r", "r", "y", " ", "P", "o", "t", "t", "e", "r", " ", ",", " ", "P", "a", "n", "i", "n", "i", "\n">>),
      Line(<<"S", "c", "h", "l", "a", "g", "w", "ö", "r", "t", "e", "r", ":", " ", "M", "a", "g", "i", "e", ",", " ", "Z", "a", "u", "b", "e", "r", "\n">>)>>

DetailIsbnLines ==
    {<<"I", "S", "B", "N", ":", " ", "9", "7", "8", "-", "3", "-", "8", "3", "3", "2", "-", "3", "5", "8", "0", "-", "1", "\n">>, <<"I", "S", "B", "N", ":", " ", "1", "2", "3", "\n">>, <<"i", "s", "b", "n", " ", "0", "4", "5", "1", "5", "2", "4", "9", "3", "4", "\n">>,
     <<"I", "S", "B", "N", ":", " ", "9", "7", "8", " ", "3", " ", "8", "3", "3", "2", " ", "3", "5", "8", "0", " ", "1", " ", "\n">>, <<"I", "S", "B", "N", ":", " ", "1", "2", "3", "4", " ", "(", "g", "e", "b", ".", ")", "\n">>, <<"I", "S", "B", "N", ":", " ", "9", "7", "8", "3", "8", "3", "3", "2", "3", "5", "8", "0", "1", "9", "\n">>,
     <<"I", "S", "B", "N", ":", "\n">>, <<"I", "S", "B", "N", ":", " ", "3", "-", "8", "3", "3", "2", "-", "3", "5", "8", "0", "-", "1", " ", "(", "P", "b", ".", ")", "\n">>, <<"I", "S", "B", "N", "\n">>, <<"I", "S", "B", "N", "-", "1", "3", ":", " ", "9", "7", "8", "3", "8", "3", "3", "2", "3", "5", "8", "0", "1", "\n">>,
     <<"I", "S", "B", "N", ":", " ", "0", "4", "5", "1", "5", "2", "4", "9", "\t", "4", "\n">>}

HeaderRow ==
    <<Cell("th", <<"Z", "W", "E", "I", "G", "S", "T", "E", "L", "L", "E">>), Cell("th", <<"S", "I", "G", "N", "A", "T", "U", "R">>), Cell("th", <<"S", "T", "A", "N", "D", "O", "R", "T", " ", "2">>),
      Cell("th", <<"S", "T", "A", "T", "U", "S">>), Cell("th", <<"V", "O", "R", "B", "E", "S", "T", "E", "L", "L", "U", "N", "G", "E", "N">>), Cell("th", <<"M", "E", "D", "I", "E", "N", "G", "R", "U", "P", "P", "E">>),
      Cell("th", <<"F", "R", "I", "S", "T">>), Cell("th", <<"B", "A", "R", "C", "O", "D", "E">>)>>

Row(texts) == [i \in 1..Len(texts) |-> Cell("td", texts[i])]

FullRow ==
    Row(<<<<"Z", "a", "n", "k", "l", "h", "o", "f">>, <<"J", "K", ".", "T", " ", "P", "E", "T">>, <<"A", "u", "s", "l", "e", "i", "h", "e">>, <<"V", "e", "r", "f", "ü", "g", "b", "a", "r">>, <<"0">>, <<"K", "i", "n", "d", "e", "r", "b", "u", "c", "h">>,
          <<>>, <<"1", "8", "0", "1", "S", "B", "0", "2", "7", "0", "8">>>>)

NordRow ==
    Row(<<<<"N", "o", "r", "d">>, <<"J", "K", ".", "N">>, <<"A", "u", "s", "l", "e", "i", "h", "e">>,
          <<"A", "u", "s", "g", "e", "l", "i", "e", "h", "e", "n">>, <<"3">>, <<"C", "D">>>>)

\* rows of 8, 7, 6, 5, 4 and 3 cells, and a row whose branch is blank
CopyRows ==
    {FullRow,
     Row(<<<<"G", "ö", "s", "t", "i", "n", "g">>, <<"J", "K", ".", "T">>, <<"M", "a", "g", "a", "z", "i", "n">>, <<" ", "A", "u", "s", "g", "e", "l", "i", "e", "h", "e", "n", " ">>, <<"2">>, <<"B", "o", "o", "k">>,
           <<"2", "0", "2", "4", "-", "0", "1", "-", "1", "5">>, <<"1", "0", "0", "2">>>>),
     Row(<<<<" ">>, <<"J", "K", ".", "B">>, <<"K", "e", "l", "l", "e", "r">>, <<"V", "e", "r", "f", "ü", "g", "b", "a", "r">>, <<"1">>, <<"D", "V", "D">>, <<>>, <<"1", "0", "0", "3">>>>),
     Row(<<<<"S", "ü", "d">>, <<"J", "K", ".", "S">>, <<"A", "u", "s", "l", "e", "i", "h", "e">>, <<"B", "e", "s", "t", "e", "l", "l", "t">>, <<"0">>, <<"B", "o", "o", "k">>, <<"1", "0", "0", "4">>>>),
     Row(<<<<"N", "o", "r", "d">>, <<"J", "K", ".", "N">>, <<"A", "u", "s", "l", "e", "i", "h", "e">>, <<"A", "u", "s", "g", "e", "l", "i", "e", "h", "e", "n">>, <<"3">>, <<"C", "D">>>>),
     Row(<<<<"O", "s", "t">>, <<"J", "K", ".", "O">>, <<"A", "u", "s", "l", "e", "i", "h", "e">>, <<"n", "i", "c", "h", "t", " ", "V", "E", "R", "F", "Ü", "G", "B", "A", "R">>, <<"1">>>>),
     Row(<<<<"W", "e", "s", "t">>, <<"J", "K", ".", "W">>, <<"L", "e", "s", "e", "s", "a", "a", "l">>, <<"I", "n", " ", "B", "e", "a", "r", "b", "e", "i", "t", "u", "n", "g">>>>),
     Row(<<<<"M", "i", "t", "t", "e">>, <<"J", "K", ".", "M">>, <<"A", "u", "s", "l", "e", "i", "h", "e">>>>)}

CopyTables == {Table(<<HeaderRow>> \o rows) : rows \in SeqsUpTo(CopyRows, MaxRows)}

\* tables that are no copy table, a copy table with a lower-case header of td
\* cells, and a table with no row
OtherTables ==
    {Table(<<>>),
     Table(<<FullRow, HeaderRow>>),
     Table(<<Row(<<<<"Z", "w", "e", "i", "g", "s", "t", "e", "l", "l", "e">>, <<"S", "i", "g", "n", "a", "t", "u", "r">>, <<"S", "t", "a", "n", "d", "o", "r", "t">>, <<"F", "r", "i", "s", "t">>>>), FullRow>>),
     Table(<<Row(<<<<"z", "w", "e", "i", "g", "s", "t", "e", "l", "l", "e">>, <<"s", "i", "g", "n", "a", "t", "u", "r">>, <<"s", "t", "a", "n", "d", "o", "r", "t">>, <<"s", "t", "a", "t", "u", "s">>>>), FullRow>>)}

LongText(n) == Repeat("x", n)

\* pages with a description block, a long paragraph or a cover image
ExtraNodes ==
    {<<Block("div", "summary", <<Line(LongText(51))>>)>>,
     <<Block("div", "summary", <<Line(LongText(50))>>)>>,
     <<Block("div", "summary", <<Line(LongText(50))>>),
       Block("main", "", <<Line(LongText(100)), Line(LongText(101) \o <<" ">>)>>)>>,
     <<Block("div", "main-content", <<Line(LongText(101))>>)>>,
     <<Block("div", "summary", <<Line(LongText(51))>>),
       Block("main", "", <<Line(LongText(101))>>)>>,
     <<Block("div", "summary", <<Line(LongText(50))>>),
       Block("div", "abstract", <<Line(LongText(52))>>),
       Block("div", "main", <<Line(<<" ">> \o LongText(100) \o <<"\n">>)>>)>>,
     <<Block("main", "", <<Line(LongText(27)), Line(LongText(102)), Line(LongText(101))>>)>>,
     <<Img("cover", PyStr(<<"/", "c", "o", "v", "e", "r", "s", "/", "1", ".", "j", "p", "g">>))>>,
     <<Img("logo", PyStr(<<"/", "l", "o", "g", "o", ".", "p", "n", "g">>)), Img("picture", PyStr(<<"/", "i", "m", "g", "/", "c", "o", "v", "e", "r", "-", "2", ".", "j", "p", "g">>))>>,
     <<Img("thumbnail", PyNone)>>,
     <<Line(<<"J", "a", "h", "r", ":", " ", "c", "2", "0", "1", "7", "\n", "V", "e", "r", "l", "a", "g", ":", "\n">>)>>,
     <<Tag("h2", "", <<"U", "n", "t", "e", "r", "t", "i", "t", "e", "l">>, PyNone), Heading>>}

\* what parse_book_detail is handed: something that is not markup, an empty
\* page, a page with each ISBN line among the other fields, and a page with
\* each table
DetailInputs ==
    {PyNone, PyInt(0), Html(<<>>), Html(MetaLines),
     Html(<<Heading, Table(<<HeaderRow, Row(<<<<" ">>, <<"a">>, <<"b">>, <<"c">>>>)>>),
            Table(<<HeaderRow, FullRow>>)>>),
     Html(<<Heading, Table(<<HeaderRow, FullRow>>), Line(<<"B", "ä", "n", "d", "e", "\n">>),
            Table(<<HeaderRow, NordRow, FullRow>>)>>)}
    \cup {Html(<<Heading, Line(t)>> \o MetaLines \o <<Table(<<HeaderRow, FullRow>>)>>) :
            t \in DetailIsbnLines}
    \cup {Html(<<Heading, t>>) : t \in CopyTables \cup OtherTables}
    \cup {Html(nodes) : nodes \in ExtraNodes}

\* parser.parse_book_detail(html)
ParseBookDetail(html) ==
    /\ call.op = "none"
    /\ call' = [op |-> "parse_book_detail", html |-> html]
    /\ ret' = parse_book_detail(html)
    /\ UNCHANGED <<now, cache, last_request_time, evts, lookup, calls, ticks,
                   obj, vq, vres, b_last_request_time, b_page, sent,
                   pc, retries, attempts>>

NextParser ==
    \/ \E html \in ListInputs : ParseSearchResults(html)
    \/ \E html \in DetailInputs : ParseBookDetail(html)

SpecParser == Init /\ [][NextParser]_vars

ParsedPage == call.op = "parse_search_results" /\ call.html.kind = "html"
ParsedDetail == call.op = "parse_book_detail" /\ call.html.kind = "html"

\* C14: the parser uses the divs of class "result-item" or "hit" when there is
\* at least one, and the divs of class "result" only when there is none; the
\* two sets are never mixed and the chosen containers are taken in document
\* order.
C14_ContainerSelection ==
    ParsedPage =>
        LET page == call.html.page
            divs == SelectSeq(page, LAMBDA d : d.tag = "div")
            first == SelectSeq(divs, LAMBDA d : d.class \in {"result-item", "hit"})
            second == SelectSeq(divs, LAMBDA d : d.class = "result")
        IN  ret.items = ParseItems(IF Len(first) >= 1 THEN first ELSE second)

\* a page with a "result" container before a "hit" container yields the book
\* of the hit alone
C14_Witness ==
    /\ ParsedPage
    /\ Len(call.html.page) = 2
    /\ IsSecondary(call.html.page[1]) /\ Truthy(parse_title(call.html.page[1]))
    /\ IsPrimary(call.html.page[2])
    /\ Len(ret.items) = 1
    /\ ret.items[1].title = PyStr(<<"D">>)

\* the containers parse_search_results selects on a page
Selected(page) ==
    IF SelectSeq(page, IsPrimary) # <<>> THEN SelectSeq(page, IsPrimary)
    ELSE SelectSeq(page, IsSecondary)

Lacks(item, tags, classes) == find(item, tags, classes) = PyNone

\* the fields that the container has no element or text for are absent, or at
\* their default, in the book
MissingFieldsDefault(item, book) ==
    /\ Lacks(item, {"span", "p"}, {"author", "creator"}) => book.author = PyNone
    /\ ~Contains(Lower(get_text(item)), <<"i", "s", "b", "n">>) => book.isbn = PyNone
    /\ find_link(item, "True") = PyNone =>
          book.catalog_id = PyNone /\ book.url = PyNone
    /\ (/\ Lacks(item, {"span", "p"}, {"availability", "status"})
        /\ Lacks(item, {"span"}, {"available", "green", "unavailable", "red"}))
          => book.availability = Msg("Unknown")
    /\ Lacks(item, {"span", "p"}, {"location", "branch", "library"}) =>
          book.location = PyNone
    /\ Lacks(item, {"span", "p"}, {"medium-type", "type"}) =>
          book.medium_type = Msg("Book")
    /\ ~HasDigit(get_text(item)) => book.publication_year = PyNone

\* C15: the list holds, in document order, exactly one Book for each selected
\* container whose title is not empty and none for the others; a container
\* lacking any other field still yields its Book, with that field absent or
\* at its default, and a dropped container does not affect the others.
C15_OneBookPerTitledContainer ==
    ParsedPage =>
        LET titled == SelectSeq(Selected(call.html.page),
                                LAMBDA c : Truthy(parse_title(c)))
        IN  /\ Len(ret.items) = Len(titled)
            /\ \A i \in 1..Len(titled) :
                  /\ ret.items[i].kind = "Book"
                  /\ ret.items[i].title = parse_title(titled[i])
                  /\ MissingFieldsDefault(titled[i], ret.items[i])

\* an untitled container is dropped and the container after it, which has a
\* title and nothing else, yields its Book
C15_Witness ==
    /\ ParsedPage
    /\ call.html.page = <<DivUntitled, DivB>>
    /\ Len(ret.items) = 1
    /\ ret.items[1].title = PyStr(<<"E">>)
    /\ ret.items[1].author = PyNone
    /\ ret.items[1].availability = Msg("Unknown")

\* the availability the label text stands for: the first keyword pair, in the
\* order Available, Checked Out, On Order, Reserved, that the lower-cased text
\* contains, or else the lower-cased text
NormalizedStatus(text) ==
    LET t == Lower(text)
        Has(a, b) == Contains(t, a) \/ Contains(t, b)
    IN  CASE Has(<<"a", "v", "a", "i", "l", "a", "b", "l", "e">>, <<"v", "e", "r", "f", "ü", "g", "b", "a", "r">>) -> Msg("Available")
          [] ~Has(<<"a", "v", "a", "i", "l", "a", "b", "l", "e">>, <<"v", "e", "r", "f", "ü", "g", "b", "a", "r">>)
             /\ Has(<<"c", "h", "e", "c", "k", "e", "d", " ", "o", "u", "t">>, <<"a", "u", "s", "g", "e", "l", "i", "e", "h", "e", "n">>) -> Msg("Checked Out")
          [] ~Has(<<"a", "v", "a", "i", "l", "a", "b", "l", "e">>, <<"v", "e", "r", "f", "ü", "g", "b", "a", "r">>)
             /\ ~Has(<<"c", "h", "e", "c", "k", "e", "d", " ", "o", "u", "t">>, <<"a", "u", "s", "g", "e", "l", "i", "e", "h", "e", "n">>)
             /\ Has(<<"o", "r", "d", "e", "r">>, <<"b", "e", "s", "t", "e", "l", "l", "t">>) -> Msg("On Order")
          [] ~Has(<<"a", "v", "a", "i", "l", "a", "b", "l", "e">>, <<"v", "e", "r", "f", "ü", "g", "b", "a", "r">>)
             /\ ~Has(<<"c", "h", "e", "c", "k", "e", "d", " ", "o", "u", "t">>, <<"a", "u", "s", "g", "e", "l", "i", "e", "h", "e", "n">>)
             /\ ~Has(<<"o", "r", "d", "e", "r">>, <<"b", "e", "s", "t", "e", "l", "l", "t">>)
             /\ Has(<<"r", "e", "s", "e", "r", "v", "e", "d">>, <<"r", "e", "s", "e", "r", "v", "i", "e", "r", "t">>) -> Msg("Reserved")
          [] OTHER -> PyStr(t)

\* the first span or p of class availability or status
StatusLabels(item) ==
    SelectSeq(item.elems,
              LAMBDA e : e.tag \in {"span", "p"} /\ e.class \in {"availability", "status"})

Indicators(item) ==
    SelectSeq(item.elems,
              LAMBDA e : e.tag = "span" /\ e.class \in {"available", "green", "unavailable", "red"})

\* C17: the availability of a list-page book is the normalization of its
\* label's text whenever the container has a label element; the indicator
\* classes decide only when there is no label; with neither it is Unknown.
C17_ListAvailability ==
    (ParsedPage /\ Len(call.html.page) = 1 /\ Len(ret.items) = 1) =>
        LET item == call.html.page[1]
            availability == ret.items[1].availability
        IN  /\ StatusLabels(item) # <<>> =>
                  availability = NormalizedStatus(Strip(StatusLabels(item)[1].text))
            /\ (StatusLabels(item) = <<>> /\ Indicators(item) # <<>>) =>
                  availability \in {Msg("Available"), Msg("Checked Out")}
            /\ (StatusLabels(item) = <<>> /\ Indicators(item) = <<>>) =>
                  availability = Msg("Unknown")

\* a label that reads "Bestellt" next to a red indicator: On Order
C17_Witness ==
    /\ ParsedPage
    /\ Len(call.html.page) = 1 /\ Len(ret.items) = 1
    /\ StatusLabels(call.html.page[1]) # <<>>
    /\ Indicators(call.html.page[1]) # <<>>
    /\ Strip(StatusLabels(call.html.page[1])[1].text) = <<"B", "e", "s", "t", "e", "l", "l", "t">>
    /\ ret.items[1].availability = Msg("On Order")

\* an emitted ISBN: a str with no hyphen, no space, and 10 or 13 characters
WellFormedIsbn(isbn) ==
    /\ IsStr(isbn)
    /\ ~Contains(isbn.s, <<"-">>) /\ ~Contains(isbn.s, <<" ">>)
    /\ Len(isbn.s) \in {10, 13}

\* the text after the ISBN label with hyphens and spaces removed: on a list
\* page the run of digits, hyphens and X after the label, on a detail page the
\* rest of the label's line; <<>> when there is no labelled text
LabelledIsbn(op, html) ==
    IF op = "parse_search_results"
    THEN LET text == get_text(html.page[1])
             m == IsbnMatch(text)
         IN  IF m = <<>> THEN <<>>
             ELSE Without(Without(SubSeq(text, m[1], m[2]), "-"), " ")
    ELSE LET value == extract_field_by_label(BeautifulSoup(html), <<"I", "S", "B", "N">>)
         IN  IF value = PyNone THEN <<>> ELSE Without(Without(value.s, "-"), " ")

\* the ISBNs of the books of a list page, or the one of a detail record
EmittedIsbns ==
    IF call.op = "parse_search_results"
    THEN {ret.items[i].isbn : i \in 1..Len(ret.items)}
    ELSE {ret.isbn}

\* C16: every ISBN the parser emits, on a list page or a detail page, has no
\* hyphen, no space, and exactly 10 or 13 characters; when the text after the
\* ISBN label cleans to another length the ISBN is absent.
C16_IsbnWellFormed ==
    ((ParsedPage /\ Len(call.html.page) = 1 /\ Len(ret.items) = 1) \/ ParsedDetail) =>
        /\ \A isbn \in EmittedIsbns : isbn # PyNone => WellFormedIsbn(isbn)
        /\ Len(LabelledIsbn(call.op, call.html)) \notin {10, 13} =>
              EmittedIsbns = {PyNone}

\* a detail page whose line reads "ISBN: 123": no ISBN in the record
C16_Witness ==
    /\ ParsedDetail
    /\ LabelledIsbn(call.op, call.html) = <<"1", "2", "3">>
    /\ ret.isbn = PyNone
    /\ ret.title # PyNone

\* the data rows of a copy table that yield a record: at least 4 cells and a
\* first cell that is not blank
CopyRowsOf(table) ==
    SelectSeq(Tail(table.rows), LAMBDA r : Len(r) >= 4 /\ Strip(r[1].text) # <<>>)

\* the status of a copy as the claim gives it for the scanned text
StatusOf(scanned) ==
    IF Contains(Lower(scanned), <<"v", "e", "r", "f", "ü", "g", "b", "a", "r">>) THEN Msg("Available")
    ELSE IF Contains(Lower(scanned), <<"a", "u", "s", "g", "e", "l", "i", "e", "h", "e", "n">>) THEN Msg("Checked Out")
    ELSE PyStr(scanned)

CellOr(row, i, default) == IF Len(row) >= i THEN PyStr(Strip(row[i].text)) ELSE default

\* the record of a data row
IsCopyOf(copy, row) ==
    /\ copy.branch = CellOr(row, 1, PyNone)
    /\ copy.call_number = CellOr(row, 2, PyNone)
    /\ copy.section = CellOr(row, 3, PyNone)
    /\ copy.status = StatusOf(Strip(row[4].text))
    /\ copy.reservations = CellOr(row, 5, Msg("0"))
    /\ copy.medium_type = CellOr(row, 6, PyNone)
    /\ copy.barcode = CellOr(row, 8, PyNone)

\* a detail page that is a heading and one table under the copy header
CopyTablePage ==
    /\ ParsedDetail
    /\ Len(call.html.page) = 2
    /\ call.html.page[2].tag = "table"
    /\ call.html.page[2].rows # <<>>
    /\ call.html.page[2].rows[1] \in
          {HeaderRow, Row(<<<<"z", "w", "e", "i", "g", "s", "t", "e", "l", "l", "e">>, <<"s", "i", "g", "n", "a", "t", "u", "r">>, <<"s", "t", "a", "n", "d", "o", "r", "t">>, <<"s", "t", "a", "t", "u", "s">>>>)}

\* C18: under a header with "zweigstelle" and "status", each data row with at
\* least 4 cells and a non-empty first cell yields one copy, in row order, with
\* branch, call_number, section and status from cells 1 to 4, reservations from
\* cell 5 or "0", medium_type from cell 6 or absent, barcode from cell 8 or
\* absent, and the status normalized; the other rows yield nothing.
C18_CopyRows ==
    CopyTablePage =>
        LET rows == CopyRowsOf(call.html.page[2])
        IN  /\ Len(ret.exemplare) = Len(rows)
            /\ \A i \in 1..Len(rows) : IsCopyOf(ret.exemplare[i], rows[i])

\* the row Zanklhof | JK.T PET | Ausleihe | Verfügbar | 0 | Kinderbuch | | 1801SB02708
\* after a row with a blank branch
C18_Witness ==
    /\ CopyTablePage
    /\ Len(call.html.page[2].rows) = 3
    /\ Strip(call.html.page[2].rows[2][1].text) = <<>>
    /\ ret.exemplare =
          <<[branch |-> PyStr(<<"Z", "a", "n", "k", "l", "h", "o", "f">>), call_number |-> PyStr(<<"J", "K", ".", "T", " ", "P", "E", "T">>),
             section |-> PyStr(<<"A", "u", "s", "l", "e", "i", "h", "e">>), status |-> Msg("Available"),
             reservations |-> PyStr(<<"0">>), medium_type |-> PyStr(<<"K", "i", "n", "d", "e", "r", "b", "u", "c", "h">>),
             barcode |-> PyStr(<<"1", "8", "0", "1", "S", "B", "0", "2", "7", "0", "8">>)]>>

TopLevelDefaults ==
    /\ ret.availability = Msg("Unknown")
    /\ ret.location = PyNone
    /\ ret.call_number = PyNone
    /\ ret.barcode = PyNone
    /\ ret.branch = PyNone
    /\ ret.exemplare = <<>>

\* the top-level fields are those of a data row: its status, normalized, and
\* its third, second, eighth and first cell
TopLevelFrom(row) ==
    /\ ret.availability = StatusOf(Strip(row[4].text))
    /\ ret.location = CellOr(row, 3, PyNone)
    /\ ret.call_number = CellOr(row, 2, PyNone)
    /\ ret.barcode = CellOr(row, 8, PyNone)
    /\ ret.branch = CellOr(row, 1, PyNone)

IsCopyTable(node) ==
    node.tag = "table" /\ node.rows # <<>> /\ IsExemplareHeader(node.rows[1])

\* the rows that yield a record, of all the copy tables of a page
AllCopyRows(page) ==
    Concat([i \in 1..Len(page) |->
               IF IsCopyTable(page[i]) THEN CopyRowsOf(page[i]) ELSE <<>>])

HasCopyTable == \E i \in 1..Len(call.html.page) : IsCopyTable(call.html.page[i])

\* C19 as claimed: on a page with a copy table the top-level availability,
\* location, call_number, barcode and branch are those of the first row of
\* the table; on a page with no copy table they are Unknown and absent and the
\* copy list is empty.
C19_AsClaimed ==
    /\ (CopyTablePage /\ Len(call.html.page[2].rows) >= 2
        /\ Len(call.html.page[2].rows[2]) >= 4)
          => TopLevelFrom(call.html.page[2].rows[2])
    /\ (ParsedDetail /\ ~HasCopyTable) => TopLevelDefaults

\* C19 as amended: the top-level fields are those of the first copy record,
\* the first data row with at least 4 cells and a non-blank branch; with no
\* such row, or no copy table, they are Unknown and absent and the copy list
\* is empty.
C19_TopLevelFields ==
    ParsedDetail =>
        IF AllCopyRows(call.html.page) # <<>>
        THEN TopLevelFrom(AllCopyRows(call.html.page)[1]) /\ ret.exemplare # <<>>
        ELSE TopLevelDefaults

\* a copy table whose first row has a blank branch: the fields are those of
\* the second row
C19_Witness ==
    /\ CopyTablePage
    /\ Len(call.html.page[2].rows) = 3
    /\ Len(call.html.page[2].rows[2]) >= 4
    /\ Strip(call.html.page[2].rows[2][1].text) = <<>>
    /\ ret.branch = PyStr(Strip(call.html.page[2].rows[3][1].text))
    /\ ret.branch # PyStr(<<>>)
    /\ Len(ret.exemplare) = 1

DetailKeys ==
    {"kind", "title", "medium_type", "author", "isbn", "publisher", "publication_year",
     "language", "series", "original_title", "page_count", "keywords", "availability",
     "location", "call_number", "barcode", "branch", "exemplare", "description",
     "cover_url", "url"}

\* C20: the parser never raises: parse_search_results returns a list of Books,
\* empty when it is handed something it cannot parse, and parse_book_detail
\* returns a record, empty in that case and otherwise with every field, a
\* field that could not be extracted being absent.
C20_ParserNeverRaises ==
    /\ call.op = "parse_search_results" =>
          /\ ret.kind = "list"
          /\ \A i \in 1..Len(ret.items) : ret.items[i].kind = "Book"
          /\ call.html.kind # "html" => ret.items = <<>>
    /\ call.op = "parse_book_detail" =>
          /\ ret.kind = "dict"
          /\ DOMAIN ret = IF call.html.kind = "html" THEN DetailKeys ELSE {"kind"}

\* a detail page whose year does not convert: the record lacks only the year
C20_Witness ==
    /\ ParsedDetail
    /\ extract_field_by_label(BeautifulSoup(call.html), <<"J", "a", "h", "r">>) = PyStr(<<"c", "2", "0", "1", "7">>)
    /\ ret.publication_year = PyNone
    /\ DOMAIN ret = DetailKeys

-----------------------------------------------------------------------------
(* models/book.py: the Book constructor, and every way a Book reaches a      *)
(* caller - built directly, parsed from a result page, returned by search,   *)
(* rebuilt from a cache entry: SpecBook                                       *)

BlankTitles == {PyNone, PyStr(<<>>)}

\* the keyword arguments Book is called with: a title that is blank, one that
\* is a single space, a usual one, and no title argument at all
BookInputs ==
    {[title |-> t] : t \in BlankTitles \cup {PyStr(<<" ">>), PyStr(<<"D">>)}}
    \cup {[title |-> t, author |-> PyStr(<<"H">>)] : t \in BlankTitles}
    \cup {[author |-> PyStr(<<"H">>)]}

\* Book(**kw), called by a user of the package
NewBook(kw) ==
    /\ call.op = "none"
    /\ call' = [op |-> "Book", kw |-> kw]
    /\ obj' = Book(kw)
    /\ UNCHANGED <<now, cache, last_request_time, ret, evts, lookup, calls, ticks,
                   vq, vres, b_last_request_time, b_page, sent,
                   pc, retries, attempts>>

\* a Book is a plain dataclass: book.title = value after construction
SetTitle(book, value) == [book EXCEPT !.title = value]

\* results whose books had their title reassigned before the result is saved
EditedResults ==
    {SearchResult(PyStr(<<"a", " ", "b">>), <<SetTitle(BookA, t)>>, 1, Keyword, StartTime) :
        t \in BlankTitles}
    \cup {SearchResult(PyStr(<<"a", " ", "b">>), <<BookB, SetTitle(BookA, PyStr(<<>>))>>, 2,
                       ByTitle, StartTime)}

\* the scraper is used only in behaviours that did not start with a
\* constructor or parser call
ScraperInUse == call.op \notin {"Book", "parse_search_results"}

NextBook ==
    \/ \E kw \in BookInputs : NewBook(kw)
    \/ \E html \in ListInputs : ParseSearchResults(html)
    \/ /\ ScraperInUse
       /\ \E k \in CacheKeys, r \in EditedResults : CacheSave(k, r, "ok")
    \/ /\ ScraperInUse
       /\ \E k \in CacheKeys : CacheLoad(k)
    \/ /\ ScraperInUse
       /\ \E q \in Queries, t \in SearchTypes, uc \in BOOLEAN :
             \E resp \in ResponsesTo(q, t, uc) :
                \E sv \in SaveOutcomesAfter(resp) : Search(q, t, uc, resp, sv)

SpecBook == Init /\ [][NextBook]_vars

HasTitle(b) == b.kind = "Book" /\ b.title.kind = "str" /\ b.title.s # <<>>

NoTitleGiven(kw) == "title" \notin DOMAIN kw \/ kw.title \in BlankTitles

\* C21: constructing a Book with an empty or absent title fails with an
\* exception, and every Book in a SearchResult returned by search or by a
\* cache load, and every Book returned by parse_search_results, has a
\* non-empty title.
C21_BookTitle ==
    /\ (call.op = "Book" /\ NoTitleGiven(call.kw)) => IsExc(obj)
    /\ call.op = "parse_search_results" =>
          \A i \in 1..Len(ret.items) : HasTitle(ret.items[i])
    /\ (call.op \in {"search", "load"} /\ ret # PyNone) =>
          /\ ret.kind = "SearchResult"
          /\ \A i \in 1..Len(ret.books) : HasTitle(ret.books[i])

\* a load of an entry that holds a book with an empty title, within its
\* lifetime: the constructor refuses the book and the load returns nothing
C21_Witness ==
    /\ call.op = "load"
    /\ lookup = "corrupt"
    /\ LET f == cache[get_cache_path(call.key)]
       IN  /\ f.text.fmt = "json"
           /\ \E i \in 1..Len(f.text.doc.books) : f.text.doc.books[i].title.j = "string"
    /\ ret = PyNone

-----------------------------------------------------------------------------
(* WebOPACScraper.clear_cache between searches: SpecClear *)

\* the body of the try block of clear_cache; Path.unlink succeeds
clear_cache(c, query) ==
    IF Truthy(query)
    THEN LET cache_path == get_cache_path(get_cache_key(query, Keyword))
         IN  IF cache_path \in DOMAIN c /\ c[cache_path].kind = "file"
             THEN [c EXCEPT ![cache_path] = NoFile]
             ELSE c
    ELSE [p \in DOMAIN c |-> NoFile]

\* what clear_cache is called with: a query, nothing, or an empty string
ClearQueries == ValidQueries \cup {PyNone, PyStr(<<>>)}

\* scraper.clear_cache(query), not twice in a row
ClearCache(query) ==
    /\ calls < MaxCalls
    /\ call.op # "clear_cache"
    /\ cache' = clear_cache(cache, query)
    /\ call' = [op |-> "clear_cache", at |-> now, query |-> query]
    /\ ret' = PyNone
    /\ evts' = <<>>
    /\ lookup' = "skipped"
    /\ UNCHANGED <<now, last_request_time, calls, ticks, obj, vq, vres,
                   b_last_request_time, b_page, sent,
                   pc, retries, attempts>>

NextClear ==
    \/ \E q \in Queries, t \in SearchTypes, uc \in BOOLEAN :
          \E resp \in ResponsesTo(q, t, uc) :
             \E sv \in SaveOutcomesAfter(resp) : Search(q, t, uc, resp, sv)
    \/ \E q \in ClearQueries : ClearCache(q)

SpecClear == Init /\ [][NextClear]_vars

\* C22: after clear_cache(q) the entry for q is absent under every search
\* type, and after clear_cache() every entry is absent: the search with
\* use_cache=True that follows (of q, or of any query after a clear of
\* everything) finds no entry.
C22_ClearCache ==
    [][(/\ call.op = "clear_cache"
        /\ IsSearchStep
        /\ call'.use_cache
        /\ validate_search_query(call'.query).ok
        /\ (call.query = PyNone \/ call.query = call'.query))
       => /\ cache[SearchedPath'].kind = "absent"
          /\ lookup' = "absent"]_vars

-----------------------------------------------------------------------------
(* Detail pages with more than one copy table, checked under SpecParser *)

CopyTablesOf(page) == SelectSeq(page, IsCopyTable)

\* C23 as claimed: the copy records are those of the first table under the
\* copy header, in document order; later such tables contribute none.
C23_AsClaimed ==
    (ParsedDetail /\ HasCopyTable) =>
        LET rows == CopyRowsOf(CopyTablesOf(call.html.page)[1])
        IN  /\ Len(ret.exemplare) = Len(rows)
            /\ \A i \in 1..Len(rows) : IsCopyOf(ret.exemplare[i], rows[i])

\* C23 as amended: the copy records are those of every table under the copy
\* header, table after table in document order and row after row within a
\* table.
C23_EveryCopyTable ==
    ParsedDetail =>
        LET rows == AllCopyRows(call.html.page)
        IN  /\ Len(ret.exemplare) = Len(rows)
            /\ \A i \in 1..Len(rows) : IsCopyOf(ret.exemplare[i], rows[i])

\* a page with two copy tables, one row in the first and two in the second:
\* three records, the second and third from the second table
C23_Witness ==
    /\ ParsedDetail
    /\ Len(CopyTablesOf(call.html.page)) = 2
    /\ Len(CopyRowsOf(CopyTablesOf(call.html.page)[1])) = 1
    /\ Len(ret.exemplare) = 3
    /\ ret.exemplare[2].branch = PyStr(<<"N", "o", "r", "d">>)
    /\ ret.exemplare[3] = ret.exemplare[1]

-----------------------------------------------------------------------------
(* The description of a detail page, checked under SpecParser *)

\* the description/summary/content/abstract-class elements of a page, in
\* document order
DescriptionElems(page) ==
    SelectSeq(Descendants(BeautifulSoup(Html(page))),
              LAMBDA e : e.tag \in {"div", "p"} /\ IsDescriptionClass(e.class))

\* the main-content container of a page: its main element, else its first
\* div of a main or content class
MainContainers(page) ==
    LET mains == SelectSeq(page, LAMBDA n : n.tag = "main")
    IN  IF mains # <<>> THEN mains
        ELSE SelectSeq(page, LAMBDA n : n.tag = "div" /\ IsMainClass(n.class))

\* the stripped texts of the paragraphs of the main-content container that
\* have at least least characters
LongParagraphs(page, least) ==
    IF MainContainers(page) = <<>> THEN <<>>
    ELSE LET ps == SelectSeq(MainContainers(page)[1].elems, LAMBDA e : e.tag = "p")
             texts == [i \in 1..Len(ps) |-> Strip(ps[i].text)]
         IN  SelectSeq(texts, LAMBDA t : Len(t) >= least)

\* the description by the fallback order, a paragraph counting from least
\* characters on
DescriptionBy(page, least) ==
    LET ds == DescriptionElems(page)
    IN  IF ds # <<>> /\ Len(stripped_text(ds[1])) > 50 THEN PyStr(stripped_text(ds[1]))
        ELSE IF LongParagraphs(page, least) # <<>> THEN PyStr(LongParagraphs(page, least)[1])
        ELSE PyNone

\* C24 as claimed: the description is the text of the first description-class
\* element when longer than 50 characters, else the first paragraph of the
\* main-content container with at least 100 characters, else None.
C24_AsClaimed ==
    ParsedDetail => ret.description = DescriptionBy(call.html.page, 100)

\* C24 as amended: the paragraph of the main-content container must have more
\* than 100 characters; one of exactly 100 is passed over.
C24_Description ==
    ParsedDetail => ret.description = DescriptionBy(call.html.page, 101)

\* a short summary block, then a main element whose first paragraph has 100
\* characters and whose second has 101: the second is the description
C24_Witness ==
    /\ ParsedDetail
    /\ DescriptionElems(call.html.page) # <<>>
    /\ Len(stripped_text(DescriptionElems(call.html.page)[1])) = 50
    /\ Len(LongParagraphs(call.html.page, 100)) = 2
    /\ Len(LongParagraphs(call.html.page, 100)[1]) = 100
    /\ ret.description = PyStr(LongText(101))

-----------------------------------------------------------------------------
(* The outcomes of BrowserSearcher.search, checked under SpecBrowser *)

IsBrowserStep == calls' # calls /\ call'.op = "browser_search"

\* the browser let the search down: it did not start, navigation failed or
\* raised, the form did not appear, or there was no HTML
BrowserFailed(a) ==
    \/ a.start = "fail"
    \/ a.nav \in {"fail", "raise"}
    \/ a.form = "missing"
    \/ ~Truthy(a.html)

\* C25: BrowserSearcher.search never raises; it returns None when the query is
\* invalid, the browser cannot be started, navigation fails or raises, the
\* form is not found or the HTML is unavailable; an invalid query causes no
\* rate-limit wait and no browser start; within one search the browser is
\* started at most once, and only when no page is open.
C25_BrowserSearchOutcomes ==
    [][IsBrowserStep =>
          /\ ~IsExc(ret')
          /\ ret' = PyNone \/ ret'.kind = "SearchResult"
          /\ (~validate_search_query(call'.query).ok \/ BrowserFailed(call')) => ret' = PyNone
          /\ ~validate_search_query(call'.query).ok =>
                /\ evts' = <<"validate">>
                /\ now' = now
                /\ b_last_request_time' = b_last_request_time
                /\ b_page' = b_page
          /\ Count(evts', "start") <= 1
          /\ Reached(evts', "start") => ~b_page]_vars

\* a search on an open page whose navigation raises, after a search that
\* started the browser and got a result: no second start, and None
C25_Witness ==
    /\ call.op = "browser_search"
    /\ calls = 2
    /\ call.nav = "raise"
    /\ call.start = Unasked
    /\ b_page
    /\ ~Reached(evts, "start")
    /\ ret = PyNone

-----------------------------------------------------------------------------
(* operations/search.py: SearchOperation.search_from_file over a CSV or JSON  *)
(* file of queries: SpecBulk                                                  *)

\* the longest list of rows or items of a file
MaxItems == 2

\* a row of csv.DictReader, or a JSON object: the values under the three keys
\* a query is looked for, None for a key that is missing
Item(query, search, title) ==
    [kind |-> "dict", query |-> query, search |-> search, title |-> title]

\* a or b
Or(a, b) == IF Truthy(a) THEN a ELSE b

\* the query of a row or item: row.get("query") or row.get("search") or
\* row.get("title"); a JSON string is its own query, and any other JSON value
\* has none
QueryOf(item) ==
    CASE item.kind = "str" -> item
      [] item.kind = "dict" -> Or(Or(item.query, item.search), item.title)
      [] OTHER -> PyNone

\* the rows of a CSV file and the queries of a JSON document: a list, the
\* list under "queries" of an object, or a single object
ItemsOf(file) ==
    CASE file.fmt = "csv" -> file.rows
      [] file.fmt = "json" /\ file.data.kind = "list" -> file.data.items
      [] file.fmt = "json" /\ file.data.kind = "queries" -> file.data.queries
      [] file.fmt = "json" /\ file.data.kind = "dict" -> <<file.data>>
      [] OTHER -> <<>>

RECURSIVE SearchItems(_, _, _, _)
\* the loop of _search_from_csv and of _search_from_json: every row or item
\* with a query is searched, st being the scraper's state before the search
\* and resps what the network answers to each; a result is kept `if result`
SearchItems(st, items, a, resps) ==
    IF items = <<>> THEN [st |-> st, results |-> <<>>, searches |-> <<>>]
    ELSE IF ~Truthy(QueryOf(Head(items)))
         THEN SearchItems(st, Tail(items), a, Tail(resps))
         ELSE CHOOSE done \in UNION
                 {{[st |-> rest.st,
                    results |-> (IF Truthy(out.ret) THEN <<out.ret>> ELSE <<>>)
                                \o rest.results,
                    searches |-> <<[query |-> QueryOf(Head(items)), ret |-> out.ret]>>
                                 \o rest.searches] :
                      rest \in {SearchItems([now |-> out.now, cache |-> out.cache,
                                             last |-> out.last],
                                            Tail(items), a, Tail(resps))}} :
                     out \in {SearchRun(st, [op |-> "search", at |-> st.now,
                                             query |-> QueryOf(Head(items)),
                                             search_type |-> a.search_type,
                                             use_cache |-> a.use_cache,
                                             resp |-> Head(resps), save |-> "ok"])}} : TRUE

\* the rows and items of the files the model reads
BulkItems ==
    {PyStr(<<"a", " ", "b">>),
     PyInt(7),
     Item(PyStr(<<"a", " ", "b">>), PyNone, PyStr(<<"D">>)),
     Item(PyStr(<<>>), PyStr(<<"A", "_", "b">>), PyNone),
     Item(PyNone, PyNone, PyStr(<<"a", " ", "b">>)),
     Item(PyNone, PyStr(<<>>), PyNone),
     Item(PyStr(<<" ", "a">>), PyStr(<<"a", " ", "b">>), PyNone)}

BulkRows == {i \in BulkItems : i.kind = "dict"}

\* a missing file, a file of another suffix, a JSON file that does not parse,
\* CSV files of up to MaxItems rows, JSON lists of up to MaxItems items, and
\* JSON objects with and without "queries"
BulkFiles ==
    {[fmt |-> "missing"], [fmt |-> "txt"], [fmt |-> "json", data |-> PyExc("JSONDecodeError")]}
    \cup {[fmt |-> "csv", rows |-> rows] : rows \in SeqsUpTo(BulkRows, MaxItems)}
    \cup {[fmt |-> "json", data |-> [kind |-> "list", items |-> items]] :
             items \in SeqsUpTo(BulkItems, MaxItems)}
    \cup {[fmt |-> "json", data |-> [kind |-> "queries", queries |-> <<i>>]] : i \in BulkItems}
    \cup {[fmt |-> "json", data |-> i] : i \in BulkRows}

\* what the network answers to each row or item in turn
ResponseLists(file) ==
    LET n == Len(ItemsOf(file))
    IN  {resps \in SeqsUpTo(Responses, n) : Len(resps) = n}

\* operation.search_from_file(file_path, search_type, use_cache) on a fresh
\* operation; the file is read before the first search
SearchFromFile(file, search_type, use_cache, resps) ==
    /\ call.op = "none"
    /\ \E out \in {SearchItems([now |-> now, cache |-> cache, last |-> last_request_time],
                                ItemsOf(file),
                                [search_type |-> search_type, use_cache |-> use_cache],
                                resps)} :
          /\ now' = out.st.now
          /\ cache' = out.st.cache
          /\ last_request_time' = out.st.last
          /\ ret' = [kind |-> "list", items |-> out.results]
          /\ evts' = out.searches
    /\ call' = [op |-> "search_from_file", file |-> file, search_type |-> search_type,
                use_cache |-> use_cache, resps |-> resps]
    /\ UNCHANGED <<lookup, calls, ticks, obj, vq, vres, b_last_request_time, b_page,
                   sent, pc, retries, attempts>>

NextBulk ==
    \E file \in BulkFiles, t \in SearchTypes, uc \in BOOLEAN :
       \E resps \in ResponseLists(file) : SearchFromFile(file, t, uc, resps)

SpecBulk == Init /\ [][NextBulk]_vars

\* the queries of the rows and items that have one, in file order
QueriesOf(items) ==
    SelectSeq([i \in 1..Len(items) |-> QueryOf(items[i])], Truthy)

\* C26: every row or item with a query (from "query", else "search", else
\* "title") is searched, one at a time in file order, rows without a query
\* being skipped; the list returned holds, in that order, the result of every
\* search that returned one - also one with zero books - and leaves out only
\* the searches that returned None.
C26_BulkSearch ==
    call.op = "search_from_file" =>
        LET returned == [i \in 1..Len(evts) |-> evts[i].ret]
        IN  /\ [i \in 1..Len(evts) |-> evts[i].query] = QueriesOf(ItemsOf(call.file))
            /\ ret.items = SelectSeq(returned, LAMBDA r : r # PyNone)

-----------------------------------------------------------------------------
(* The labels of the results of search, checked under Spec *)

\* C27: every SearchResult returned by search(q, t, ...) has query q and
\* search_type t, also when it is served from the cache and q shares its
\* cache key with another query.
C27_ResultLabels ==
    (call.op = "search" /\ ret # PyNone) =>
        /\ ret.kind = "SearchResult"
        /\ ret.query = call.query
        /\ ret.search_type = call.search_type

-----------------------------------------------------------------------------
(* The cache directory over its life: entries left by an earlier run, loads,  *)
(* saves and clears with the clock running: SpecStore                         *)

\* what an earlier run left under a path: nothing, a result saved at StartTime,
\* or a file whose save did not finish
StoredFiles ==
    {NoFile, File(StartTime, Truncated)}
    \cup {File(StartTime, [fmt |-> "json", doc |-> CacheDocument(r)]) : r \in SaveResults}

InitStore ==
    /\ now = StartTime
    /\ cache \in [CachePaths -> StoredFiles]
    /\ last_request_time = 0
    /\ call = [op |-> "none"]
    /\ ret = PyNone
    /\ evts = <<>>
    /\ lookup = "skipped"
    /\ calls = 0
    /\ ticks = 0
    /\ Idle

NextStore ==
    \/ \E k \in CacheKeys, r \in SaveResults, o \in SaveOutcomes : CacheSave(k, r, o)
    \/ \E k \in CacheKeys : CacheLoad(k)
    \/ \E q \in ClearQueries : ClearCache(q)
    \/ \E d \in CacheTickSteps : Tick(d)

SpecStore == InitStore /\ [][NextStore]_vars

IsLoadStep == calls' # calls /\ call'.op = "load"

\* a load leaves every entry as it is, and finds nothing in an entry older
\* than the TTL
LoadReadsOnly ==
    IsLoadStep =>
        /\ cache' = cache
        /\ LET f == cache[get_cache_path(call'.key)]
           IN  (f.kind = "file" /\ now - f.mtime > CACHE_TTL) => ret' = PyNone

\* C28 as claimed: a load never creates, modifies or deletes an entry nor
\* changes its age, so that an entry written at T is a miss at every read
\* after T + TTL; only a successful save or a clear changes the store.
C28_AsClaimed ==
    [][/\ LoadReadsOnly
       /\ cache' # cache =>
             \/ call'.op = "clear_cache"
             \/ call'.op = "save" /\ call'.outcome = "ok"]_vars

\* C28 as amended: the store is changed by a clear and by a save that opened
\* its file, whether it went on to finish the document or failed while
\* writing it; a load changes nothing.
C28_LoadReadOnly ==
    [][/\ LoadReadsOnly
       /\ cache' # cache =>
             \/ call'.op = "clear_cache"
             \/ call'.op = "save" /\ call'.outcome \in {"ok", "write_failed"}]_vars

\* the second of two calls, a load of an entry that an earlier run wrote at
\* StartTime, one second after its TTL has elapsed: a miss, the entry in place
C28_Witness ==
    /\ call.op = "load"
    /\ calls = 2
    /\ call.at = StartTime + CACHE_TTL + 1
    /\ cache[get_cache_path(call.key)].kind = "file"
    /\ cache[get_cache_path(call.key)].mtime = StartTime
    /\ cache[get_cache_path(call.key)].text.fmt = "json"
    /\ lookup = "expired"
    /\ ret = PyNone

-----------------------------------------------------------------------------
(* The rate limiter's state over a sequence of searches, checked under Spec *)

\* the entry a search with these arguments would find, read before the call
FoundInCache ==
    /\ call'.use_cache
    /\ Truthy(LoadFromCache(cache, now, get_cache_key(call'.query, call'.search_type)))

\* the search gets past validation and the cache lookup, to the try block
GoesToNetwork == validate_search_query(call'.query).ok /\ ~FoundInCache

\* C29: last_request_time never decreases; a search changes it exactly when it
\* passes validation and the cache lookup and reaches the network step, where
\* it becomes the time at which the request leaves, at least RATE_LIMIT_DELAY
\* after the previous stamp, whether or not the request then succeeds; a
\* search that fails validation or is served from the cache leaves it
\* unchanged and does not sleep.
C29_LimiterState ==
    [][/\ last_request_time' >= last_request_time
       /\ IsSearchStep =>
             /\ (last_request_time' # last_request_time) <=> GoesToNetwork
             /\ Reached(evts', "rate_limit") <=> GoesToNetwork
             /\ GoesToNetwork =>
                   /\ last_request_time' = now'
                   /\ now' >= now
                   /\ now' >= last_request_time + RATE_LIMIT_DELAY
             /\ ~GoesToNetwork => now' = now]_vars

\* a second search that had to wait for the limiter, whose request then
\* failed: the stamp moved to the time the request left
C29_Witness ==
    /\ call.op = "search"
    /\ calls = 2
    /\ Len(sent) = 2
    /\ ~call.resp.ok
    /\ ret = PyNone
    /\ now > call.at
    /\ last_request_time = now
    /\ last_request_time = sent[1] + RATE_LIMIT_DELAY

\* a search served from the cache after a search that went to the network:
\* the stamp is still that of the first request
C29_ServedFromCache ==
    /\ call.op = "search"
    /\ calls = 2
    /\ lookup = "hit"
    /\ evts = <<"validate", "cache_lookup">>
    /\ Len(sent) = 1
    /\ last_request_time = sent[1]
    /\ now > last_request_time

-----------------------------------------------------------------------------
(* Two scraper processes on one cache directory: one saves a result under a   *)
(* key while the other loads that key: SpecRace.  pc holds each process's     *)
(* position, call the key, the new result and what the file held before.      *)

\* what the other process finds under the key when the race starts: nothing,
\* a result saved just now or more than a TTL ago, or the remains of a save
\* that failed part-way
RaceFiles ==
    {NoFile, File(StartTime, Truncated)}
    \cup {File(m, [fmt |-> "json", doc |-> CacheDocument(r)]) :
             m \in {StartTime, StartTime - CACHE_TTL - 1}, r \in SaveResults}

InitRace ==
    /\ now = StartTime
    /\ \E k \in CacheKeys, f \in RaceFiles, r \in SaveResults :
          /\ cache = [p \in CachePaths |-> IF p = get_cache_path(k) THEN f ELSE NoFile]
          /\ call = [op |-> "race", key |-> k, result |-> r, before |-> f]
    /\ last_request_time = 0
    /\ ret = PyNone
    /\ evts = <<>>
    /\ lookup = "skipped"
    /\ calls = 0
    /\ ticks = 0
    /\ obj = PyNone
    /\ vq = PyNone
    /\ vres = PyNone
    /\ b_last_request_time = 0
    /\ b_page = FALSE
    /\ sent = <<>>
    /\ pc = [saver |-> "start", loader |-> "start"]
    /\ retries = REQUEST_RETRY_ATTEMPTS
    /\ attempts = <<>>

RaceFrame ==
    UNCHANGED <<last_request_time, call, lookup, calls, ticks, obj, vq, vres,
                b_last_request_time, b_page, sent, retries, attempts>>

\* _save_to_cache, open(cache_path, "w"): the file is created or cut to nothing
SaveOpen(opened) ==
    /\ pc.saver = "start"
    /\ cache' = IF opened
                THEN SaveFiles(cache, now, call.key, call.result, "write_failed")
                ELSE SaveFiles(cache, now, call.key, call.result, "open_failed")
    /\ pc' = [pc EXCEPT !.saver = IF opened THEN "opened" ELSE "done"]
    /\ evts' = Append(evts, "open_w")
    /\ UNCHANGED <<now, ret>>
    /\ RaceFrame

\* _save_to_cache, json.dump into the buffered file: the document may stay in
\* the buffer or reach the file in part (flushed = FALSE), or reach it whole;
\* a dump that raises leaves the part written and ends the save
SaveWrite(flushed, raised) ==
    /\ pc.saver = "opened"
    /\ ~(flushed /\ raised)
    /\ cache' = SaveFiles(cache, now, call.key, call.result,
                          IF flushed THEN "ok" ELSE "write_failed")
    /\ pc' = [pc EXCEPT !.saver = IF raised THEN "done" ELSE "written"]
    /\ evts' = Append(evts, IF raised THEN "write_raised" ELSE "write")
    /\ UNCHANGED <<now, ret>>
    /\ RaceFrame

\* _save_to_cache, the end of the with block: the buffer is flushed
SaveClose ==
    /\ pc.saver = "written"
    /\ cache' = SaveFiles(cache, now, call.key, call.result, "ok")
    /\ pc' = [pc EXCEPT !.saver = "done"]
    /\ evts' = Append(evts, "close")
    /\ UNCHANGED <<now, ret>>
    /\ RaceFrame

\* _load_from_cache, cache_path.exists()
LoadExists ==
    /\ pc.loader = "start"
    /\ LET f == cache[get_cache_path(call.key)]
       IN  pc' = [pc EXCEPT !.loader = IF f.kind = "absent" THEN "done" ELSE "exists"]
    /\ ret' = PyNone
    /\ evts' = Append(evts, "exists")
    /\ UNCHANGED <<now, cache>>
    /\ RaceFrame

\* _load_from_cache, the stat of the file and the expiry test
LoadAge ==
    /\ pc.loader = "exists"
    /\ LET f == cache[get_cache_path(call.key)]
       IN  pc' = [pc EXCEPT !.loader = IF IsExpired(now - f.mtime) THEN "done" ELSE "fresh"]
    /\ ret' = PyNone
    /\ evts' = Append(evts, "stat")
    /\ UNCHANGED <<now, cache>>
    /\ RaceFrame

\* _load_from_cache, open, json.load and the rebuilding of the result; any
\* exception is logged and becomes None
LoadRead ==
    /\ pc.loader = "fresh"
    /\ LET r == ReadEntry(cache[get_cache_path(call.key)], now)
       IN  ret' = IF IsExc(r) THEN PyNone ELSE r
    /\ pc' = [pc EXCEPT !.loader = "done"]
    /\ evts' = Append(evts, "read")
    /\ UNCHANGED <<now, cache>>
    /\ RaceFrame

\* a second passes between two steps of the processes
RaceTick ==
    /\ now < StartTime + MaxTicks
    /\ now' = now + 1
    /\ UNCHANGED <<cache, ret, evts, pc>>
    /\ RaceFrame

NextRace ==
    \/ \E opened \in BOOLEAN : SaveOpen(opened)
    \/ \E flushed, raised \in BOOLEAN : SaveWrite(flushed, raised)
    \/ SaveClose
    \/ LoadExists
    \/ LoadAge
    \/ LoadRead
    \/ RaceTick

SpecRace == InitRace /\ [][NextRace]_vars

\* the result the file held when the race started, if it held one
HeldBefore(x) ==
    /\ call.before.kind = "file"
    /\ call.before.text.fmt = "json"
    /\ x.kind = "SearchResult"
    /\ JsonEncode(x.query) = call.before.text.doc.query
    /\ JsonEncode(x.search_type) = call.before.text.doc.search_type
    /\ JsonEncode(PyInt(x.total_results)) = call.before.text.doc.total_results
    /\ Len(x.books) = Len(call.before.text.doc.books)
    /\ \A i \in 1..Len(x.books) :
          JsonEncodeDict(BookToDict(x.books[i])) = call.before.text.doc.books[i]

\* C30: whatever the interleaving of the steps of a save and of a load of one
\* key, and also when the file holds the remains of a failed save, the load
\* does not raise and returns None, the result the file held before, or the
\* result being saved.
C30_RaceOutcomes ==
    (call.op = "race" /\ pc.loader = "done") =>
        /\ ~IsExc(ret)
        /\ \/ ret = PyNone
           \/ HeldBefore(ret)
           \/ SameResult(ret, call.result)

\* the load that read between the saver's truncation and its close: it had
\* found a fresh entry, read a file cut short, and returned None
C30_Witness ==
    /\ call.op = "race"
    /\ pc.loader = "done"
    /\ call.before.kind = "file"
    /\ call.before.text.fmt = "json"
    /\ call.before.mtime = StartTime
    /\ evts = <<"exists", "stat", "open_w", "read">>
    /\ ret = PyNone

\* the load that read after the saver's close and returned the new result
\* where the file had held another
C30_ReadsNew ==
    /\ call.op = "race"
    /\ pc.loader = "done"
    /\ evts = <<"exists", "open_w", "stat", "write", "close", "read">>
    /\ SameResult(ret, call.result)
    /\ ~HeldBefore(ret)

====
